---- MODULE Spec2Model ----
(***************************************************************************)
(* Model of the LangGraph shopping-cart chatbot: the cart/order aggregate  *)
(* (models/cart.py, models/order.py), the graph nodes (graph/nodes.py),    *)
(* the routing edges (graph/edges.py), the compiled graph                  *)
(* (graph/builder.py) and the session driver (app/main.py).                *)
(*                                                                         *)
(* Conventions.  Text is a sequence of one-character strings.  Money is    *)
(* counted in cents.  A quantity is counted in 1/QtyDen of a unit, so that *)
(* the fractional numbers a JSON reply may carry are representable; the    *)
(* whole quantity n is Whole(n).                                           *)
(***************************************************************************)
EXTENDS Integers, Sequences, FiniteSets, TLC

VARIABLES
    messages,            \* state["messages"]: the log (its last MaxLog messages)
    cart,                \* state["cart"].items, in insertion order
    current_intent,      \* state["current_intent"]
    stage,               \* state["stage"]
    last_search_results, \* state["last_search_results"]
    last_product_id,     \* state["last_product_id"]
    customer_name,       \* state["customer_name"]
    customer_city,       \* state["customer_city"]
    order,               \* state["order"]
    pc,                  \* position of the running turn in the graph
    chan,                \* the channel values of the running graph.invoke, else None
    turn,                \* bookkeeping of the running turn
    call,                \* the last direct call on the cart and its outcome
    sessions,            \* the states made by create_initial_state, in order
    catalog_path,        \* the file at CatalogService.catalog_path
    service,             \* a CatalogService: _products in insertion order, _loaded
    singletons,          \* nodes.py's globals _catalog_service and _llm, and the objects made
    threads              \* the threads calling get_catalog_service or get_llm

vars == <<messages, cart, current_intent, stage, last_search_results,
          last_product_id, customer_name, customer_city, order, pc, chan, turn, call,
          sessions, catalog_path, service, singletons, threads>>

\* What lies outside the chatbot session whose turns and cart are followed.
outside == <<sessions, catalog_path, service, singletons, threads>>

session == <<messages, current_intent, stage, last_search_results,
             last_product_id, customer_name, customer_city, order, pc, chan, turn>>

MaxSessions == 2

MaxThreads == 2

\* Python's None.
None == [none |-> TRUE]

----------------------------------------------------------------------------
(* Bounds *)

\* Number of most recent messages of the log the model keeps.
MaxLog == 2

\* Quantities are counted in 1/QtyDen of a unit.
QtyDen == 2

\* Largest whole quantity a direct call or an LLM reply asks for.
MaxQty == 3

----------------------------------------------------------------------------
(* Text *)

IsSpace(c) == c \in {" ", "\n", "\t"}

Letters == << <<"A","a">>, <<"B","b">>, <<"C","c">>, <<"D","d">>, <<"E","e">>, <<"F","f">>,
              <<"G","g">>, <<"H","h">>, <<"I","i">>, <<"J","j">>, <<"K","k">>, <<"L","l">>,
              <<"M","m">>, <<"N","n">>, <<"O","o">>, <<"P","p">>, <<"Q","q">>, <<"R","r">>,
              <<"S","s">>, <<"T","t">>, <<"U","u">>, <<"V","v">>, <<"W","w">>, <<"X","x">>,
              <<"Y","y">>, <<"Z","z">> >>

LowerChar(c) ==
    IF \E i \in 1..Len(Letters) : Letters[i][1] = c
    THEN Letters[CHOOSE i \in 1..Len(Letters) : Letters[i][1] = c][2]
    ELSE c

UpperChar(c) ==
    IF \E i \in 1..Len(Letters) : Letters[i][2] = c
    THEN Letters[CHOOSE i \in 1..Len(Letters) : Letters[i][2] = c][1]
    ELSE c

\* str.lower()
Lower(s) == [i \in 1..Len(s) |-> LowerChar(s[i])]

\* str.upper()
Upper(s) == [i \in 1..Len(s) |-> UpperChar(s[i])]

RECURSIVE LStrip(_)
LStrip(s) == IF s # <<>> /\ IsSpace(Head(s)) THEN LStrip(Tail(s)) ELSE s

RECURSIVE RStrip(_)
RStrip(s) ==
    IF s # <<>> /\ IsSpace(s[Len(s)]) THEN RStrip(SubSeq(s, 1, Len(s) - 1)) ELSE s

\* str.strip()
Strip(s) == RStrip(LStrip(s))

\* s.startswith(p)
StartsWith(s, p) == Len(p) <= Len(s) /\ SubSeq(s, 1, Len(p)) = p

\* w in s
Contains(s, w) ==
    \E i \in 1..(Len(s) - Len(w) + 1) : SubSeq(s, i, i + Len(w) - 1) = w

\* s[n:]
DropFirst(s, n) == SubSeq(s, n + 1, Len(s))

----------------------------------------------------------------------------
(* Product and catalog *)

\* The products of the catalog, in load order.  A product is immutable.
Catalog ==
    << [id |-> <<"p","1">>, name |-> <<"G","e","l">>, price |-> 1000, stock |-> 1],
       [id |-> <<"p","2">>, name |-> <<"P","a","n">>, price |-> 2550, stock |-> 2] >>

Products == {Catalog[i] : i \in 1..Len(Catalog)}

ProductIds == {p.id : p \in Products}

\* The whole quantity n, in the model's unit.
Whole(n) == n * QtyDen

\* Whether a number is a whole one (what a pydantic int field accepts).
IsWhole(q) == q % QtyDen = 0

\* Product.is_available
is_available(product, quantity) == Whole(product.stock) >= quantity

\* CatalogService.get_all_products
get_all_products == Catalog

\* CatalogService.get_by_id
get_by_id(product_id) ==
    IF \E p \in Products : p.id = product_id
    THEN CHOOSE p \in Products : p.id = product_id
    ELSE None

\* CatalogService.get_by_name: the first product whose lowered name is the
\* lowered, stripped argument.
get_by_name(name) ==
    LET name_lower == Strip(Lower(name))
        hits == {i \in 1..Len(Catalog) : Lower(Catalog[i].name) = name_lower}
    IN  IF hits = {} THEN None
        ELSE Catalog[CHOOSE i \in hits : \A j \in hits : i <= j]

----------------------------------------------------------------------------
(* Cart: models/cart.py.  The items dict is a sequence of lines in        *)
(* insertion order; a line is [product, quantity].                         *)

\* round(a / b) to the nearest integer, ties to even, for a >= 0 and b > 0.
RoundDiv(a, b) ==
    LET q == a \div b
        r == a % b
    IN  IF 2 * r < b THEN q
        ELSE IF 2 * r > b THEN q + 1
        ELSE IF q % 2 = 0 THEN q ELSE q + 1

\* The outcome of a call: the object after it and the error it raised, if any.
Returned(c) == [cart |-> c, raised |-> "no"]

Raised(c, error) == [cart |-> c, raised |-> error]

\* CartItem(product=..., quantity=...): the quantity field is an int, gt=0.
CartItemValid(quantity) == IsWhole(quantity) /\ quantity > 0

\* CartItem.subtotal
subtotal(item) == RoundDiv(item.product.price * item.quantity, QtyDen)

\* ShoppingCart.has_product: product_id in self.items
has_product(c, product_id) == \E i \in 1..Len(c) : c[i].product.id = product_id

\* Position of the line self.items[product_id].
LineOf(c, product_id) == CHOOSE i \in 1..Len(c) : c[i].product.id = product_id

\* ShoppingCart.get_item
get_item(c, product_id) ==
    IF has_product(c, product_id) THEN c[LineOf(c, product_id)] ELSE None

\* self.items[product_id].quantity = quantity (an assignment pydantic does not validate)
SetQuantity(c, product_id, quantity) ==
    [c EXCEPT ![LineOf(c, product_id)].quantity = quantity]

\* del self.items[product_id]
DelLine(c, product_id) ==
    LET k == LineOf(c, product_id)
    IN  SubSeq(c, 1, k - 1) \o SubSeq(c, k + 1, Len(c))

\* add_item checking the stock against the added quantity only.
add_item_checks_added_only(c, product, quantity) ==
    IF quantity <= 0 THEN Raised(c, "invalid_quantity")
    ELSE IF ~is_available(product, quantity) THEN Raised(c, "insufficient_stock")
    ELSE IF has_product(c, product.id)
         THEN Returned(SetQuantity(c, product.id,
                                   c[LineOf(c, product.id)].quantity + quantity))
         ELSE IF ~CartItemValid(quantity) THEN Raised(c, "validation")
              ELSE Returned(Append(c, [product |-> product, quantity |-> quantity]))

\* add_item taking what it adds from the product's stock.
add_item_from_stock(c, product, quantity) ==
    IF quantity <= 0 THEN Raised(c, "invalid_quantity")
    ELSE IF ~is_available(product, quantity) THEN Raised(c, "insufficient_stock")
    ELSE Returned(Append(c, [product |-> [product EXCEPT !.stock = @ - quantity \div QtyDen],
                             quantity |-> quantity]))

\* ShoppingCart.add_item
add_item(c, product, quantity) ==
    IF quantity <= 0 THEN Raised(c, "invalid_quantity")
    ELSE IF ~is_available(product, quantity) THEN Raised(c, "insufficient_stock")
    ELSE IF has_product(c, product.id)
         THEN LET new_quantity == c[LineOf(c, product.id)].quantity + quantity
              IN  IF ~is_available(product, new_quantity)
                  THEN Raised(c, "insufficient_stock")
                  ELSE Returned(SetQuantity(c, product.id, new_quantity))
         ELSE IF ~CartItemValid(quantity) THEN Raised(c, "validation")
              ELSE Returned(Append(c, [product |-> product, quantity |-> quantity]))

\* ShoppingCart.remove_item
remove_item(c, product_id) ==
    IF ~has_product(c, product_id) THEN Raised(c, "not_in_cart")
    ELSE Returned(DelLine(c, product_id))

\* update_quantity rejecting the quantity 0 like a negative one.
update_quantity_rejects_zero(c, product_id, quantity) ==
    IF ~has_product(c, product_id) THEN Raised(c, "not_in_cart")
    ELSE IF quantity <= 0 THEN Raised(c, "negative_quantity")
    ELSE IF ~is_available(c[LineOf(c, product_id)].product, quantity)
         THEN Raised(c, "insufficient_stock")
         ELSE Returned(SetQuantity(c, product_id, quantity))

\* update_quantity adding the quantity to the line's.
update_quantity_adds(c, product_id, quantity) ==
    IF ~has_product(c, product_id) THEN Raised(c, "not_in_cart")
    ELSE IF quantity < 0 THEN Raised(c, "negative_quantity")
    ELSE IF quantity = 0 THEN remove_item(c, product_id)
    ELSE IF ~is_available(c[LineOf(c, product_id)].product, quantity)
         THEN Raised(c, "insufficient_stock")
         ELSE Returned(SetQuantity(c, product_id,
                                   c[LineOf(c, product_id)].quantity + quantity))

\* ShoppingCart.update_quantity
update_quantity(c, product_id, quantity) ==
    IF ~has_product(c, product_id) THEN Raised(c, "not_in_cart")
    ELSE IF quantity < 0 THEN Raised(c, "negative_quantity")
    ELSE IF quantity = 0 THEN remove_item(c, product_id)
    ELSE IF ~is_available(c[LineOf(c, product_id)].product, quantity)
         THEN Raised(c, "insufficient_stock")
         ELSE Returned(SetQuantity(c, product_id, quantity))

RECURSIVE SumSubtotals(_)
SumSubtotals(c) == IF c = <<>> THEN 0 ELSE subtotal(Head(c)) + SumSubtotals(Tail(c))

\* get_total adding the prices of the lines, whatever their quantities.
RECURSIVE get_total_of_prices(_)
get_total_of_prices(c) ==
    IF c = <<>> THEN 0 ELSE Head(c).product.price + get_total_of_prices(Tail(c))

\* ShoppingCart.get_total: round(sum of the subtotals, 2); the subtotals are
\* whole cents, so the outer rounding keeps their sum.
get_total(c) == RoundDiv(SumSubtotals(c) * 1, 1)

RECURSIVE SumQuantities(_)
SumQuantities(c) == IF c = <<>> THEN 0 ELSE Head(c).quantity + SumQuantities(Tail(c))

\* ShoppingCart.get_item_count
get_item_count(c) == SumQuantities(c)

\* ShoppingCart.is_empty
is_empty(c) == Len(c) = 0

\* ShoppingCart.clear
clear(c) == <<>>

----------------------------------------------------------------------------
(* Values.  A Python or JSON value that may be absent or of several types  *)
(* is a record: None, Str(text), Num(number).                              *)

Str(t) == [str |-> t]

Num(n) == [num |-> n]

IsStr(v) == DOMAIN v = {"str"}

IsNum(v) == DOMAIN v = {"num"}

\* Python truthiness of an optional string: neither None nor "".
Truthy(v) == v # None /\ v # Str(<<>>)

\* dict.get(key, default) on a decoded JSON object.
Get(d, key, default) == IF key \in DOMAIN d THEN d[key] ELSE default

----------------------------------------------------------------------------
(* Message log.  A message is [type, content]; the content of a human      *)
(* message is Str(text), the content of an assistant message is            *)
(* [kind |-> k] naming the reply the code built.  A log is kept as its     *)
(* last MaxLog messages (win) and whether older ones exist (dropped).  The *)
(* content of a message that no code reads any more is elided: between     *)
(* turns only the last message is read (send_message returns the reply),   *)
(* and a turn reads only the text of its own user message.                 *)

HumanMessage(text) == [type |-> "human", content |-> Str(text)]

AIMessage(kind) == [type |-> "ai", content |-> [kind |-> kind]]

Elided == [elided |-> TRUE]

EmptyLog == [win |-> <<>>, dropped |-> FALSE]

\* The last MaxLog messages of a sequence.
Keep(seq) ==
    IF Len(seq) <= MaxLog THEN seq ELSE SubSeq(seq, Len(seq) - MaxLog + 1, Len(seq))

\* a + b on lists of messages.
LogConcat(a, b) ==
    IF b.dropped THEN [win |-> b.win, dropped |-> TRUE]
    ELSE [win |-> Keep(a.win \o b.win),
          dropped |-> a.dropped \/ Len(a.win) + Len(b.win) > MaxLog]

\* log + [message]
LogAppend(log, message) == LogConcat(log, [win |-> <<message>>, dropped |-> FALSE])

\* len(log) == 1
LenIsOne(log) == ~log.dropped /\ Len(log.win) = 1

\* The log with the content of every message elided.
ElideLog(log) == [log EXCEPT !.win = [i \in 1..Len(log.win) |-> [@[i] EXCEPT !.content = Elided]]]

\* The log a turn leaves: only the reply at its end is read afterwards.
ElideRead(log) ==
    [log EXCEPT !.win = [i \in 1..Len(log.win) |->
        IF i = Len(log.win) /\ @[i].type = "ai" THEN @[i] ELSE [@[i] EXCEPT !.content = Elided]]]

\* The reducer of the messages channel: Annotated[List[BaseMessage], add].
messages_reducer(existing, update) == LogConcat(existing, update)

\* Number of messages by which log `out` extends log `in` at its end.
Appended(in, out) ==
    LET fits(k) ==
            /\ k <= Len(out.win)
            /\ out = LogConcat(in, [win |-> SubSeq(out.win, Len(out.win) - k + 1, Len(out.win)),
                                    dropped |-> FALSE])
    IN  IF \E k \in 0..MaxLog : fits(k)
        THEN CHOOSE k \in 0..MaxLog : fits(k) /\ \A j \in 0..(k - 1) : ~fits(j)
        ELSE -1

\* graph.state.get_last_user_message
get_last_user_message(state) ==
    LET w == state.messages.win
        humans == {i \in 1..Len(w) : w[i].type = "human"}
    IN  IF humans = {} THEN <<>>
        ELSE w[CHOOSE i \in humans : \A j \in humans : j <= i].content.str

----------------------------------------------------------------------------
(* Conversation state: graph/state.py *)

UserIntent == {"BROWSE", "MANAGE_CART", "VIEW_CART", "CHECKOUT", "OUT_OF_CONTEXT",
               "UNKNOWN", "EXIT"}

ConversationStage == {"WELCOME", "SHOPPING", "CHECKOUT", "COMPLETED", "ERROR"}

\* The value of each UserIntent member.
IntentValue ==
    [BROWSE |-> <<"b","r","o","w","s","e">>,
     MANAGE_CART |-> <<"m","a","n","a","g","e","_","c","a","r","t">>,
     VIEW_CART |-> <<"v","i","e","w","_","c","a","r","t">>,
     CHECKOUT |-> <<"c","h","e","c","k","o","u","t">>,
     OUT_OF_CONTEXT |-> <<"o","u","t","_","o","f","_","c","o","n","t","e","x","t">>,
     UNKNOWN |-> <<"u","n","k","n","o","w","n">>,
     EXIT |-> <<"e","x","i","t">>]

\* create_initial_state: the fields of a new session (the cart apart).
create_initial_state ==
    [messages |-> EmptyLog,
     current_intent |-> "BROWSE",
     stage |-> "WELCOME",
     last_search_results |-> None,
     last_product_id |-> None,
     customer_name |-> None,
     customer_city |-> None,
     order |-> None]

\* The state dict a node receives: the channel values and the cart object.
StateOf(ch, c) ==
    [messages |-> ch.messages, cart |-> c, current_intent |-> ch.current_intent,
     stage |-> ch.stage, last_search_results |-> ch.last_search_results,
     last_product_id |-> ch.last_product_id, customer_name |-> ch.customer_name,
     customer_city |-> ch.customer_city, order |-> ch.order]

----------------------------------------------------------------------------
(* Order: models/order.py *)

\* Order.validate_non_empty_string
validate_non_empty_string(v) == v # <<>> /\ Strip(v) # <<>>

\* create_from_cart without the test for an empty cart.
create_from_cart_of_any_cart(c, customer_name_, customer_city_) ==
    IF ~validate_non_empty_string(customer_name_)
       \/ ~validate_non_empty_string(customer_city_)
       \/ get_total(c) < 0
    THEN [order |-> None, raised |-> "validation"]
    ELSE [order |-> [order_id |-> "ORD",
                     cart |-> c,
                     customer_name |-> Strip(customer_name_),
                     customer_city |-> Strip(customer_city_),
                     total |-> get_total(c)],
          raised |-> "no"]

\* create_from_cart keeping the cart object itself, which checkout clears
\* right after, instead of a copy of it.
create_from_cart_shares_cart(c, customer_name_, customer_city_) ==
    IF is_empty(c) THEN [order |-> None, raised |-> "empty_cart"]
    ELSE IF ~validate_non_empty_string(customer_name_)
            \/ ~validate_non_empty_string(customer_city_)
            \/ get_total(c) < 0
         THEN [order |-> None, raised |-> "validation"]
         ELSE [order |-> [order_id |-> "ORD",
                          cart |-> clear(c),
                          customer_name |-> Strip(customer_name_),
                          customer_city |-> Strip(customer_city_),
                          total |-> get_total(c)],
               raised |-> "no"]

\* Order.create_from_cart: the order, or the error raised.
create_from_cart(c, customer_name_, customer_city_) ==
    IF is_empty(c) THEN [order |-> None, raised |-> "empty_cart"]
    ELSE IF ~validate_non_empty_string(customer_name_)
            \/ ~validate_non_empty_string(customer_city_)
            \/ get_total(c) < 0
         THEN [order |-> None, raised |-> "validation"]
         ELSE [order |-> [order_id |-> "ORD",
                          cart |-> c,
                          customer_name |-> Strip(customer_name_),
                          customer_city |-> Strip(customer_city_),
                          total |-> get_total(c)],
               raised |-> "no"]

----------------------------------------------------------------------------
(* Nodes: graph/nodes.py.  A node maps the state dict to the state dict it *)
(* returns; NodeReturn also tells how often the node used the LLM, and     *)
(* NodeRaise is a node that raised (the cart keeps what was done to it).   *)

NodeReturn(state, llm_calls) == [state |-> state, raised |-> "no", llm_calls |-> llm_calls]

NodeRaise(state, error, llm_calls) == [state |-> state, raised |-> error, llm_calls |-> llm_calls]

\* An LLM call either raises or returns content.
LLMRaises(kind) == [raises |-> kind]

LLMReturns(content) == [content |-> content]

LLMFailed(llm) == "raises" \in DOMAIN llm

\* state["messages"] = state["messages"] + [AIMessage(content=...)]
Reply(state, kind) == [state EXCEPT !.messages = LogAppend(@, AIMessage(kind))]

\* _handle_llm_error: the user-facing string for an exception.
handle_llm_error(error) ==
    IF error = "auth" THEN "err_api_key"
    ELSE IF error = "rate" THEN "err_rate_limit"
    ELSE "err_generic"

\* _show_welcome_message leaving the intent as it was.
show_welcome_message_keeps_intent(state) ==
    [Reply(state, "welcome") EXCEPT !.stage = "SHOPPING"]

\* _show_welcome_message
show_welcome_message(state) ==
    [Reply(state, "welcome") EXCEPT !.stage = "SHOPPING", !.current_intent = "UNKNOWN"]

\* The label looked up as the LLM wrote it, neither trimmed nor lowered.
ParseIntent_as_written(content) ==
    IF \E m \in UserIntent : IntentValue[m] = content
    THEN CHOOSE m \in UserIntent : IntentValue[m] = content
    ELSE "UNKNOWN"

\* UserIntent(intent_str.lower()), with the ValueError turned into UNKNOWN.
ParseIntent(content) ==
    LET intent_str == Upper(Strip(content))
        value == Lower(intent_str)
    IN  IF \E m \in UserIntent : IntentValue[m] = value
        THEN CHOOSE m \in UserIntent : IntentValue[m] = value
        ELSE "UNKNOWN"

\* detect_intent_node asking the LLM whatever the stage.
detect_intent_node_always_asks(state, llm) ==
    IF LenIsOne(state.messages) THEN NodeReturn(show_welcome_message(state), 0)
    ELSE LET user_message == get_last_user_message(state)
         IN  IF user_message = <<>>
             THEN NodeReturn([state EXCEPT !.current_intent = "UNKNOWN"], 0)
             ELSE IF LLMFailed(llm)
                  THEN NodeReturn([state EXCEPT !.current_intent = "UNKNOWN"], 1)
                  ELSE NodeReturn([state EXCEPT !.current_intent = ParseIntent(llm.content)], 1)

\* detect_intent_node
detect_intent_node(state, llm) ==
    IF LenIsOne(state.messages) THEN NodeReturn(show_welcome_message(state), 0)
    ELSE LET user_message == get_last_user_message(state)
         IN  IF user_message = <<>>
             THEN NodeReturn([state EXCEPT !.current_intent = "UNKNOWN"], 0)
             ELSE IF /\ state.stage = "CHECKOUT"
                     /\ (~Truthy(state.customer_name) \/ ~Truthy(state.customer_city))
                  THEN NodeReturn([state EXCEPT !.current_intent = "CHECKOUT"], 0)
                  ELSE IF LLMFailed(llm)
                       THEN NodeReturn([state EXCEPT !.current_intent = "UNKNOWN"], 1)
                       ELSE NodeReturn([state EXCEPT !.current_intent = ParseIntent(llm.content)], 1)

\* browse_products_node listing the products without the snapshot.
browse_products_node_without_snapshot(state) ==
    NodeReturn([Reply(state, "product_list") EXCEPT !.stage = "SHOPPING"], 0)

\* browse_products_node
browse_products_node(state) ==
    LET products == get_all_products
    IN  NodeReturn(
            [Reply(state, "product_list") EXCEPT
                !.last_search_results = [list |->
                    [i \in 1..Len(products) |->
                        [id |-> products[i].id, name |-> products[i].name,
                         price |-> products[i].price, stock |-> products[i].stock]]],
                !.stage = "SHOPPING"],
            0)

\* view_cart_node
view_cart_node(state) ==
    NodeReturn(Reply(state, IF is_empty(state.cart) THEN "cart_is_empty" ELSE "cart_view"), 0)

\* out_of_context_node without a handler for the failure of the LLM call.
out_of_context_node_lets_failure_through(state, llm) ==
    IF LLMFailed(llm) THEN NodeRaise(state, llm.raises, 1)
    ELSE NodeReturn([Reply(state, "llm_text") EXCEPT !.stage = "SHOPPING"], 1)

\* out_of_context_node
out_of_context_node(state, llm) ==
    NodeReturn(
        [Reply(state, IF LLMFailed(llm) THEN "out_of_context_fallback" ELSE "llm_text")
            EXCEPT !.stage = "SHOPPING"],
        1)

----------------------------------------------------------------------------
(* manage_cart_node and its helpers *)

\* The outcome of a cart helper: the cart after it and the reply it returns,
\* or the error it raised.
Done(c, reply) == [cart |-> c, reply |-> reply, raised |-> "no"]

Failed(c, error) == [cart |-> c, reply |-> "none", raised |-> error]

\* A cart call made by a helper: its error propagates, else the reply is returned.
Then(result, reply) ==
    IF result.raised # "no" THEN Failed(result.cart, result.raised)
    ELSE Done(result.cart, reply)

\* _extract_cart_action: the action data; None when the reply does not decode
\* to a JSON object.
extract_cart_action(llm) ==
    IF llm.json # "object" THEN None
    ELSE [action |-> Get(llm.data, "action", "add"),
          quantity |-> Get(llm.data, "quantity", Num(Whole(1))),
          product_ref |-> Get(llm.data, "product_reference", <<>>)]

Digits == <<"0", "1", "2", "3", "4", "5", "6", "7", "8", "9">>

IsDigit(c) == \E d \in 1..Len(Digits) : Digits[d] = c

DigitValue(c) == (CHOOSE d \in 1..Len(Digits) : Digits[d] = c) - 1

RECURSIVE DecimalValue(_)
DecimalValue(t) ==
    IF t = <<>> THEN 0 ELSE 10 * DecimalValue(SubSeq(t, 1, Len(t) - 1)) + DigitValue(t[Len(t)])

\* int(value): [int |-> n], or the error raised.
ToInt(value) ==
    IF IsNum(value) THEN [int |-> value.num \div QtyDen, raised |-> "no"]
    ELSE IF IsStr(value)
         THEN LET t == Strip(value.str)
              IN  IF t # <<>> /\ \A i \in 1..Len(t) : IsDigit(t[i])
                  THEN [int |-> DecimalValue(t), raised |-> "no"]
                  ELSE [int |-> 0, raised |-> "value_error"]
         ELSE [int |-> 0, raised |-> "type_error"]

Found(product) == [product |-> product, raised |-> "no"]

\* _find_product: the product (or None), or the error raised.
find_product(action_data, state) ==
    LET product_ref == action_data.product_ref
    IN  IF IsStr(product_ref) \/ IsNum(product_ref)
        THEN [product |-> None, raised |-> "attribute_error"]
        ELSE
        LET ref_type == Get(product_ref, "type", "name")
            ref_value == Get(product_ref, "value", Str(<<>>))
        IN  IF ref_type = "last"
            THEN IF Truthy(state.last_product_id)
                 THEN Found(get_by_id(state.last_product_id.str))
                 ELSE Found(None)
            ELSE IF ref_type = "id"
            THEN IF IsStr(ref_value) THEN Found(get_by_id(ref_value.str)) ELSE Found(None)
            ELSE IF ref_type = "index"
            THEN LET n == ToInt(ref_value)
                     idx == n.int - 1
                     results == state.last_search_results
                 IN  IF n.raised = "value_error" THEN Found(None)
                     ELSE IF n.raised # "no" THEN [product |-> None, raised |-> n.raised]
                     ELSE IF ~(0 <= idx) THEN Found(None)
                     ELSE IF results = None THEN [product |-> None, raised |-> "type_error"]
                     ELSE IF idx < Len(results.list)
                          THEN Found(get_by_id(results.list[idx + 1].id))
                          ELSE Found(None)
            ELSE IF ref_type = "name"
            THEN IF ~IsStr(ref_value) THEN [product |-> None, raised |-> "attribute_error"]
                 ELSE IF get_by_id(ref_value.str) # None
                      THEN Found(get_by_id(ref_value.str))
                      ELSE Found(get_by_name(ref_value.str))
            ELSE Found(None)

\* _add_to_cart
add_to_cart(c, product, quantity) ==
    IF ~IsNum(quantity) THEN Failed(c, "type_error")
    ELSE IF Whole(product.stock) >= quantity.num
         THEN Then(add_item(c, product, quantity.num), "added")
         ELSE Done(c, "stock_warning")

\* _update_cart_quantity refusing a product that is not in the cart.
update_cart_quantity_in_cart_only(c, product, quantity) ==
    IF ~has_product(c, product.id) THEN Done(c, "not_in_cart")
    ELSE IF quantity = Num(0) THEN Then(remove_item(c, product.id), "removed")
         ELSE IF ~IsNum(quantity) THEN Failed(c, "type_error")
         ELSE IF Whole(product.stock) >= quantity.num
              THEN Then(update_quantity(c, product.id, quantity.num), "updated")
              ELSE Done(c, "stock_warning")

\* _update_cart_quantity
update_cart_quantity(c, product, quantity) ==
    IF ~has_product(c, product.id)
    THEN IF ~IsNum(quantity) THEN Failed(c, "type_error")
         ELSE IF Whole(product.stock) >= quantity.num
              THEN Then(add_item(c, product, quantity.num), "added")
              ELSE Done(c, "stock_warning")
    ELSE IF quantity = Num(0) THEN Then(remove_item(c, product.id), "removed")
         ELSE IF ~IsNum(quantity) THEN Failed(c, "type_error")
         ELSE IF Whole(product.stock) >= quantity.num
              THEN Then(update_quantity(c, product.id, quantity.num), "updated")
              ELSE Done(c, "stock_warning")

\* _remove_from_cart
remove_from_cart(c, product, quantity) ==
    IF ~has_product(c, product.id) THEN Done(c, "not_in_cart")
    ELSE LET current_quantity == get_item(c, product.id).quantity
         IN  IF ~IsNum(quantity) THEN Failed(c, "type_error")
             ELSE IF quantity.num >= current_quantity
                  THEN Then(remove_item(c, product.id), "removed")
                  ELSE Then(update_quantity(c, product.id, current_quantity - quantity.num),
                            "reduced")

\* _execute_cart_action
execute_cart_action(action_data, product, state) ==
    IF action_data.action = "remove"
    THEN remove_from_cart(state.cart, product, action_data.quantity)
    ELSE IF action_data.action = "update"
         THEN update_cart_quantity(state.cart, product, action_data.quantity)
         ELSE add_to_cart(state.cart, product, action_data.quantity)

\* _send_cart_error_message leaving the stage as it was.
send_cart_error_message_keeps_stage(state, error_type) ==
    Reply(state, IF error_type = "parse_error" THEN "parse_error" ELSE "product_not_found")

\* _send_cart_error_message
send_cart_error_message(state, error_type) ==
    [Reply(state, IF error_type = "parse_error" THEN "parse_error" ELSE "product_not_found")
        EXCEPT !.stage = "SHOPPING"]

\* The end of manage_cart_node: append response_text, stage SHOPPING.
ManageCartEnd(state, response_text) == [Reply(state, response_text) EXCEPT !.stage = "SHOPPING"]

\* manage_cart_node without "state['last_product_id'] = product.id".
manage_cart_node_forgets_product(state, llm) ==
    IF LLMFailed(llm)
    THEN NodeReturn(ManageCartEnd(state, handle_llm_error(llm.raises)), 1)
    ELSE
    LET action_data == extract_cart_action(llm)
    IN  IF action_data = None
        THEN NodeReturn(send_cart_error_message(state, "parse_error"), 1)
        ELSE
        LET found == find_product(action_data, state)
        IN  IF found.raised # "no"
            THEN NodeReturn(ManageCartEnd(state, handle_llm_error(found.raised)), 1)
            ELSE IF found.product = None
            THEN NodeReturn(send_cart_error_message(state, "product_not_found"), 1)
            ELSE
            LET done == execute_cart_action(action_data, found.product, state)
                response_text == IF done.raised # "no" THEN handle_llm_error(done.raised)
                                 ELSE done.reply
            IN  NodeReturn(ManageCartEnd([state EXCEPT !.cart = done.cart], response_text), 1)

\* manage_cart_node assigning last_product_id only once the action is applied.
manage_cart_node_remembers_applied(state, llm) ==
    IF LLMFailed(llm)
    THEN NodeReturn(ManageCartEnd(state, handle_llm_error(llm.raises)), 1)
    ELSE
    LET action_data == extract_cart_action(llm)
    IN  IF action_data = None
        THEN NodeReturn(send_cart_error_message(state, "parse_error"), 1)
        ELSE
        LET found == find_product(action_data, state)
        IN  IF found.raised # "no"
            THEN NodeReturn(ManageCartEnd(state, handle_llm_error(found.raised)), 1)
            ELSE IF found.product = None
            THEN NodeReturn(send_cart_error_message(state, "product_not_found"), 1)
            ELSE
            LET done == execute_cart_action(action_data, found.product, state)
                response_text == IF done.raised # "no" THEN handle_llm_error(done.raised)
                                 ELSE done.reply
                with_id == IF done.raised = "no" /\ done.reply \in {"added", "updated",
                                                                     "removed", "reduced"}
                           THEN [state EXCEPT !.last_product_id = Str(found.product.id)]
                           ELSE state
            IN  NodeReturn(ManageCartEnd([with_id EXCEPT !.cart = done.cart], response_text), 1)

\* manage_cart_node
manage_cart_node(state, llm) ==
    IF LLMFailed(llm)
    THEN NodeReturn(ManageCartEnd(state, handle_llm_error(llm.raises)), 1)
    ELSE
    LET action_data == extract_cart_action(llm)
    IN  IF action_data = None
        THEN NodeReturn(send_cart_error_message(state, "parse_error"), 1)
        ELSE
        LET found == find_product(action_data, state)
        IN  IF found.raised # "no"
            THEN NodeReturn(ManageCartEnd(state, handle_llm_error(found.raised)), 1)
            ELSE IF found.product = None
            THEN NodeReturn(send_cart_error_message(state, "product_not_found"), 1)
            ELSE
            LET with_id == [state EXCEPT !.last_product_id = Str(found.product.id)]
                done == execute_cart_action(action_data, found.product, with_id)
                response_text == IF done.raised # "no" THEN handle_llm_error(done.raised)
                                 ELSE done.reply
            IN  NodeReturn(ManageCartEnd([with_id EXCEPT !.cart = done.cart], response_text), 1)

----------------------------------------------------------------------------
(* checkout_node and its helpers *)

\* The words that ask for the checkout rather than give a name.
TriggerWords == {<<"c","o","m","p","r","a","r">>,
                 <<"f","i","n","a","l","i","z","a","r">>,
                 <<"c","h","e","c","k","o","u","t">>,
                 <<"p","a","g","a","r">>}

\* The leading phrases _extract_name_from_message removes, in its order.
NamePrefixes == <<<<"m","i"," ","n","o","m","b","r","e"," ","e","s">>,
                  <<"m","e"," ","l","l","a","m","o">>,
                  <<"s","o","y">>,
                  <<"m","i"," ","n","o","m","b","r","e",":">>>>

\* _extract_name_from_message taking the whole stripped message as the name.
extract_name_from_message_whole(message) ==
    IF Strip(message) # <<>> THEN Str(Strip(message)) ELSE None

\* _extract_name_from_message: the name, or None.
extract_name_from_message(message) ==
    LET name == Strip(message)
        hits == {i \in 1..Len(NamePrefixes) : StartsWith(Lower(name), NamePrefixes[i])}
        stripped == IF hits = {} THEN name
                    ELSE Strip(DropFirst(name,
                             Len(NamePrefixes[CHOOSE i \in hits : \A j \in hits : i <= j])))
    IN  IF stripped # <<>> THEN Str(stripped) ELSE None

\* _collect_customer_name
collect_customer_name(state, user_message) ==
    IF \E word \in TriggerWords : Contains(Lower(user_message), word)
    THEN [Reply(state, "ask_name") EXCEPT !.stage = "CHECKOUT"]
    ELSE LET name == extract_name_from_message(user_message)
         IN  IF name # None
             THEN [Reply(state, "ask_city") EXCEPT !.customer_name = name, !.stage = "CHECKOUT"]
             ELSE [Reply(state, "name_not_understood") EXCEPT !.stage = "CHECKOUT"]

\* _complete_order without "state['cart'].clear()".
complete_order_keeps_cart(state, city) ==
    LET with_city == [state EXCEPT !.customer_city = Str(Strip(city))]
        created == create_from_cart(state.cart, state.customer_name.str, Strip(city))
    IN  IF created.raised # "no" THEN NodeRaise(with_city, created.raised, 0)
        ELSE NodeReturn(
                [Reply(with_city, "order_confirmation") EXCEPT
                    !.order = created.order,
                    !.stage = "COMPLETED"],
                0)

\* _complete_order
complete_order(state, city) ==
    LET with_city == [state EXCEPT !.customer_city = Str(Strip(city))]
        created == create_from_cart(state.cart, state.customer_name.str, Strip(city))
    IN  IF created.raised # "no" THEN NodeRaise(with_city, created.raised, 0)
        ELSE NodeReturn(
                [Reply(with_city, "order_confirmation") EXCEPT
                    !.order = created.order,
                    !.cart = clear(state.cart),
                    !.stage = "COMPLETED"],
                0)

\* checkout_node answering an empty cart without resetting the stage.
checkout_node_keeps_stage(state) ==
    LET user_message == get_last_user_message(state)
    IN  IF is_empty(state.cart)
        THEN NodeReturn(Reply(state, "checkout_cart_empty"), 0)
        ELSE IF ~Truthy(state.customer_name)
        THEN NodeReturn(collect_customer_name(state, user_message), 0)
        ELSE IF ~Truthy(state.customer_city)
        THEN complete_order(state, user_message)
        ELSE NodeReturn(state, 0)

\* checkout_node completing an order whenever the name is known.
checkout_node_orders_again(state) ==
    LET user_message == get_last_user_message(state)
    IN  IF is_empty(state.cart)
        THEN NodeReturn([Reply(state, "checkout_cart_empty") EXCEPT !.stage = "SHOPPING"], 0)
        ELSE IF ~Truthy(state.customer_name)
        THEN NodeReturn(collect_customer_name(state, user_message), 0)
        ELSE complete_order(state, user_message)

\* checkout_node
checkout_node(state) ==
    LET user_message == get_last_user_message(state)
    IN  IF is_empty(state.cart)
        THEN NodeReturn([Reply(state, "checkout_cart_empty") EXCEPT !.stage = "SHOPPING"], 0)
        ELSE IF ~Truthy(state.customer_name)
        THEN NodeReturn(collect_customer_name(state, user_message), 0)
        ELSE IF ~Truthy(state.customer_city)
        THEN complete_order(state, user_message)
        ELSE NodeReturn(state, 0)

----------------------------------------------------------------------------
(* Edges: graph/edges.py *)

\* route_by_intent sending what it does not know to the out-of-context handler.
route_by_intent_unknown_to_handler(state) ==
    LET intent == Get(state, "current_intent", "UNKNOWN")
    IN  IF intent = "EXIT" THEN "END"
        ELSE IF intent = "BROWSE" THEN "browse"
        ELSE IF intent = "MANAGE_CART" THEN "manage_cart"
        ELSE IF intent = "VIEW_CART" THEN "view_cart"
        ELSE IF intent = "CHECKOUT" THEN "checkout"
        ELSE "out_of_context"

\* route_by_intent
route_by_intent(state) ==
    LET intent == Get(state, "current_intent", "UNKNOWN")
    IN  IF intent = "EXIT" THEN "END"
        ELSE IF intent = "BROWSE" THEN "browse"
        ELSE IF intent = "MANAGE_CART" THEN "manage_cart"
        ELSE IF intent = "VIEW_CART" THEN "view_cart"
        ELSE IF intent = "CHECKOUT" THEN "checkout"
        ELSE IF intent = "OUT_OF_CONTEXT" THEN "out_of_context"
        ELSE "END"

\* should_continue sending the graph back to detect_intent.
should_continue_again(state) == "detect_intent"

\* should_continue
should_continue(state) == "END"

----------------------------------------------------------------------------
(* Inputs: what the user types and what the LLM answers *)

Texts == {<<>>,
          <<" ">>,
          <<"P","a","g","a","r">>,
          <<" ","s","o","y"," ","A","n","a"," ">>}

IntentReplies == {<<"B","R","O","W","S","E">>,
                  <<"m","a","n","a","g","e","_","c","a","r","t">>,
                  <<" ","V","i","e","w","_","C","a","r","t","\n">>,
                  <<"C","H","E","C","K","O","U","T">>,
                  <<"O","u","t","_","O","f","_","C","o","n","t","e","x","t">>,
                  <<"e","x","i","t">>,
                  <<"U","N","K","N","O","W","N">>,
                  <<"b","r","o","w","s","e",".">>,
                  <<"v","i","e","w"," ","c","a","r","t">>,
                  <<"i","n","t","e","n","t",":"," ","e","x","i","t">>,
                  <<>>}

IntentLLM == {LLMRaises("other")} \cup {LLMReturns(r) : r \in IntentReplies}

OutOfContextLLM == {LLMRaises("other"), LLMReturns(<<"H","o","l","a">>)}

Actions == {"add", "remove", "update", "delete"}

\* Numbers a reply may carry as quantity: the whole ones, and all of them.
WholeNumbers == {Num(Whole(n)) : n \in (-1)..MaxQty}

Numbers == {Num(h) : h \in Whole(-1)..Whole(MaxQty)}

NonNumbers == {None, Str(<<"2">>)}

\* Product references that resolve to a product of the catalog.
PlainReferences ==
    {[type |-> "id", value |-> Str(<<"p","1">>)],
     [type |-> "name", value |-> Str(<<"p","2">>)]}

OtherReferences ==
    {[type |-> "last"],
     [type |-> "id", value |-> Str(<<"z">>)],
     [type |-> "id", value |-> Num(Whole(1))],
     [type |-> "index", value |-> Num(0)],
     [type |-> "index", value |-> Num(Whole(1))],
     [type |-> "index", value |-> Num(Whole(3))],
     [type |-> "index", value |-> Str(<<" ","2">>)],
     [type |-> "index", value |-> Str(<<"x">>)],
     [type |-> "index", value |-> None],
     [type |-> "name", value |-> Str(<<" ","g","e","l"," ">>)],
     [type |-> "name", value |-> Str(<<"z">>)],
     [type |-> "name", value |-> Num(Whole(1))],
     [type |-> "sku", value |-> Str(<<"p","1">>)],
     [value |-> Str(<<"P","A","N">>)],
     Str(<<"G","e","l">>)}

\* The JSON objects a reply may decode to, for a set of quantities: every
\* action with every quantity on a plain reference, an action the handler
\* does not name, every other reference with one action and quantity, and
\* objects that lack fields.
ExtractedData(quantities) ==
    {[action |-> a, quantity |-> q, product_reference |-> r] :
        a \in Actions \ {"delete"}, q \in quantities \cup NonNumbers, r \in PlainReferences}
    \cup {[action |-> "delete", quantity |-> Num(Whole(1)), product_reference |-> r] :
            r \in PlainReferences}
    \cup {[action |-> "update", quantity |-> Num(Whole(1)), product_reference |-> r] :
            r \in OtherReferences}
    \cup {[product_reference |-> r] : r \in PlainReferences}
    \cup {[action |-> "remove", quantity |-> Num(Whole(1))]}

ExtractionLLM(quantities) ==
    {LLMRaises(k) : k \in {"auth", "rate", "other"}}
    \cup {[json |-> "undecodable"], [json |-> "non_object"]}
    \cup {[json |-> "object", data |-> d] : d \in ExtractedData(quantities)}

----------------------------------------------------------------------------
(* The compiled graph (graph/builder.py) and the session (app/main.py) *)

\* The path map of the conditional edges leaving detect_intent.
IntentEdges ==
    [browse |-> "browse", manage_cart |-> "manage_cart", view_cart |-> "view_cart",
     checkout |-> "checkout", out_of_context |-> "out_of_context", END |-> "END"]

\* The path map of the conditional edges leaving every handler.
HandlerEdges == [detect_intent |-> "detect_intent", END |-> "END"]

Handlers == {"browse", "manage_cart", "view_cart", "checkout", "out_of_context"}

NewTurn == [nodes |-> <<>>, appended |-> <<>>, llm_calls |-> 0, raised |-> "no"]

Init ==
    /\ messages = create_initial_state.messages
    /\ cart = <<>>
    /\ current_intent = create_initial_state.current_intent
    /\ stage = create_initial_state.stage
    /\ last_search_results = create_initial_state.last_search_results
    /\ last_product_id = create_initial_state.last_product_id
    /\ customer_name = create_initial_state.customer_name
    /\ customer_city = create_initial_state.customer_city
    /\ order = create_initial_state.order
    /\ pc = "idle"
    /\ chan = None
    /\ turn = NewTurn
    /\ call = [op |-> "none"]
    /\ sessions = <<>>
    /\ catalog_path = [kind |-> "absent"]
    /\ service = [products |-> <<>>, loaded |-> FALSE]
    /\ singletons = [catalog_service |-> None, llm |-> None, made |-> <<>>]
    /\ threads = [t \in 1..MaxThreads |-> [pc |-> "out", getter |-> "none", got |-> None]]

SessionUnchanged ==
    UNCHANGED <<messages, current_intent, stage, last_search_results, last_product_id,
                customer_name, customer_city, order>>

\* ShoppingChatBot.send_message up to graph.invoke: the user message is
\* appended to the session's log and the state is written to the channels,
\* the log through the reducer of its channel.
SubmitFrom(texts) ==
    /\ pc = "idle"
    /\ \E text \in texts :
        LET log == LogAppend(ElideLog(messages), HumanMessage(text))
        IN  /\ messages' = log
            /\ chan' = [messages |-> messages_reducer(EmptyLog, log),
                        current_intent |-> current_intent,
                        stage |-> stage,
                        last_search_results |-> last_search_results,
                        last_product_id |-> last_product_id,
                        customer_name |-> customer_name,
                        customer_city |-> customer_city,
                        order |-> order]
    /\ pc' = "detect_intent"
    /\ turn' = NewTurn
    /\ UNCHANGED <<cart, current_intent, stage, last_search_results, last_product_id,
                   customer_name, customer_city, order, call>>
    /\ UNCHANGED outside

\* The channel values after a node returned `state`: every key is written,
\* the log through its reducer.
Written(state) ==
    [messages |-> messages_reducer(chan.messages, state.messages),
     current_intent |-> state.current_intent,
     stage |-> state.stage,
     last_search_results |-> state.last_search_results,
     last_product_id |-> state.last_product_id,
     customer_name |-> state.customer_name,
     customer_city |-> state.customer_city,
     order |-> state.order]

\* A node has run.  What it returned is written to the channels and the graph
\* goes on at `next`; at END graph.invoke returns the channel values and
\* send_message stores them as the session's state.  An exception the node
\* raised leaves graph.invoke and send_message, and the session keeps the
\* state it had (the cart object keeps what was done to it).
RunNode(name, result, next) ==
    /\ cart' = result.state.cart
    /\ turn' = [nodes |-> Append(turn.nodes, name),
                appended |-> Append(turn.appended,
                                    Appended(chan.messages, result.state.messages)),
                llm_calls |-> turn.llm_calls + result.llm_calls,
                raised |-> result.raised]
    /\ UNCHANGED call
    /\ UNCHANGED outside
    /\ IF result.raised # "no"
       THEN /\ chan' = None
            /\ pc' = "idle"
            /\ messages' = ElideRead(messages)
            /\ UNCHANGED <<current_intent, stage, last_search_results, last_product_id,
                           customer_name, customer_city, order>>
       ELSE IF next = "END"
       THEN /\ chan' = None
            /\ pc' = "idle"
            /\ messages' = ElideRead(Written(result.state).messages)
            /\ current_intent' = Written(result.state).current_intent
            /\ stage' = Written(result.state).stage
            /\ last_search_results' = Written(result.state).last_search_results
            /\ last_product_id' = Written(result.state).last_product_id
            /\ customer_name' = Written(result.state).customer_name
            /\ customer_city' = Written(result.state).customer_city
            /\ order' = Written(result.state).order
       ELSE /\ chan' = Written(result.state)
            /\ pc' = next
            /\ SessionUnchanged

\* The entry node, then the conditional edge route_by_intent.
DetectIntentFrom(replies) ==
    /\ pc = "detect_intent"
    /\ \E llm \in replies :
        LET result == detect_intent_node(StateOf(chan, cart), llm)
        IN  RunNode("detect_intent", result, IntentEdges[route_by_intent(result.state)])

Browse ==
    /\ pc = "browse"
    /\ LET result == browse_products_node(StateOf(chan, cart))
       IN  RunNode("browse", result, HandlerEdges[should_continue(result.state)])

ManageCartFrom(replies) ==
    /\ pc = "manage_cart"
    /\ \E llm \in replies :
        LET result == manage_cart_node(StateOf(chan, cart), llm)
        IN  RunNode("manage_cart", result, HandlerEdges[should_continue(result.state)])

ViewCart ==
    /\ pc = "view_cart"
    /\ LET result == view_cart_node(StateOf(chan, cart))
       IN  RunNode("view_cart", result, HandlerEdges[should_continue(result.state)])

Checkout ==
    /\ pc = "checkout"
    /\ LET result == checkout_node(StateOf(chan, cart))
       IN  RunNode("checkout", result, HandlerEdges[should_continue(result.state)])

OutOfContext ==
    /\ pc = "out_of_context"
    /\ \E llm \in OutOfContextLLM :
        LET result == out_of_context_node(StateOf(chan, cart), llm)
        IN  RunNode("out_of_context", result, HandlerEdges[should_continue(result.state)])

(* A session whose LLM answers the extraction with whole quantities. *)

Submit == SubmitFrom(Texts)

DetectIntent == DetectIntentFrom(IntentLLM)

ManageCart == ManageCartFrom(ExtractionLLM(WholeNumbers))

Next ==
    \/ Submit
    \/ DetectIntent
    \/ Browse
    \/ ManageCart
    \/ ViewCart
    \/ Checkout
    \/ OutOfContext

Spec == Init /\ [][Next]_vars

(* A shopping session (no checkout) whose LLM answers the extraction with *)
(* any number as quantity.                                                 *)

ShoppingReplies == {LLMReturns(IntentValue[m]) : m \in {"MANAGE_CART", "VIEW_CART"}}

SubmitShopping == SubmitFrom({<<"P","a","g","a","r">>})

DetectIntentShopping == DetectIntentFrom(ShoppingReplies)

ManageCartAnyNumber == ManageCartFrom(ExtractionLLM(Numbers))

AnyNumberNext ==
    \/ SubmitShopping
    \/ DetectIntentShopping
    \/ ManageCartAnyNumber
    \/ ViewCart

AnyNumberSpec == Init /\ [][AnyNumberNext]_vars

----------------------------------------------------------------------------
(* Direct calls on a session's cart (as in tests/test_basic.py and          *)
(* tests/test_nodes_mocked.py): the arguments are of the declared types.   *)

DirectQuantities == {Whole(n) : n \in (-1)..MaxQty}

DirectIds == ProductIds \cup {<<"z">>}

Called(op, product_id, quantity, result) ==
    /\ cart' = result.cart
    /\ call' = [op |-> op, product_id |-> product_id, quantity |-> quantity,
                raised |-> result.raised, before |-> cart]
    /\ UNCHANGED session
    /\ UNCHANGED outside

AddItemCall ==
    /\ pc = "idle"
    /\ \E product \in Products, quantity \in DirectQuantities :
        Called("add_item", product.id, quantity, add_item(cart, product, quantity))

RemoveItemCall ==
    /\ pc = "idle"
    /\ \E product_id \in DirectIds :
        Called("remove_item", product_id, 0, remove_item(cart, product_id))

UpdateQuantityCall ==
    /\ pc = "idle"
    /\ \E product_id \in DirectIds, quantity \in DirectQuantities :
        Called("update_quantity", product_id, quantity,
               update_quantity(cart, product_id, quantity))

ClearCall ==
    /\ pc = "idle"
    /\ Called("clear", <<>>, 0, Returned(clear(cart)))

CartNext ==
    \/ AddItemCall
    \/ RemoveItemCall
    \/ UpdateQuantityCall
    \/ ClearCall

CartSpec == Init /\ [][CartNext]_vars

----------------------------------------------------------------------------
(* Helpers of the properties *)

\* Quantity of a product in a cart, 0 when it has no line.
QuantityIn(c, product_id) ==
    IF \E i \in 1..Len(c) : c[i].product.id = product_id
    THEN c[CHOOSE i \in 1..Len(c) : c[i].product.id = product_id].quantity
    ELSE 0

\* Sum of f over the products of the catalog.
RECURSIVE SumOverCatalog(_, _)
SumOverCatalog(f(_), n) ==
    IF n = 0 THEN 0 ELSE f(Catalog[n]) + SumOverCatalog(f, n - 1)

\* At most one line per product id.
OneLinePerProduct(c) ==
    \A i, j \in 1..Len(c) : c[i].product.id = c[j].product.id => i = j

\* The last message of a log.
LastMessage(log) == log.win[Len(log.win)]

\* The text of the user message of the turn under way.
TurnText == LastMessage(messages).content.str

\* The turn under way is the session's first: its log holds the one user message.
FirstTurn == pc # "idle" /\ ~messages.dropped /\ Len(messages.win) = 1

\* The state dict the node at pc receives.
NodeInput == StateOf(chan, cart)

----------------------------------------------------------------------------
(* Properties of a turn *)

\* C1: a turn terminates and runs detect_intent followed by at most one
\* handler: a turn starts at detect_intent with no node run, detect_intent
\* leads to a handler or to the end of the turn, and every handler leads to
\* the end of the turn (should_continue returns END), never to detect_intent
\* or to a second handler; so a turn ends after at most two nodes.
C1_TurnRunsAtMostOneHandler ==
    [][/\ (pc = "idle" /\ pc' # "idle") => (pc' = "detect_intent" /\ turn'.nodes = <<>>)
       /\ pc = "detect_intent" =>
                /\ turn.nodes = <<>>
                /\ turn'.nodes = <<"detect_intent">>
                /\ pc' \in Handlers \cup {"idle"}
       /\ pc \in Handlers =>
                /\ should_continue(NodeInput) = "END"
                /\ turn.nodes = <<"detect_intent">>
                /\ turn'.nodes = <<"detect_intent", pc>>
                /\ pc' = "idle"]_vars

\* C1 witness: a turn that ran detect_intent and the checkout handler has ended.
C1_Witness ==
    /\ pc = "idle"
    /\ turn.nodes = <<"detect_intent", "checkout">>
    /\ turn.raised = "no"

\* The handler each intent is routed to; idle is the end of the turn.
RouteTable ==
    [BROWSE |-> "browse", MANAGE_CART |-> "manage_cart", VIEW_CART |-> "view_cart",
     CHECKOUT |-> "checkout", OUT_OF_CONTEXT |-> "out_of_context",
     EXIT |-> "idle", UNKNOWN |-> "idle"]

C3_WelcomeOnFirstTurnOnly ==
    [][/\ (pc = "detect_intent" /\ FirstTurn) =>
            /\ pc' = "idle"
            /\ turn' = [nodes |-> <<"detect_intent">>, appended |-> <<1>>,
                        llm_calls |-> 0, raised |-> "no"]
            /\ LastMessage(messages') = AIMessage("welcome")
            /\ stage' = "SHOPPING"
            /\ current_intent' = "UNKNOWN"
            /\ cart' = cart
       /\ (pc # "idle" /\ ~FirstTurn) =>
            \A i \in 1..Len(messages'.win) :
                messages'.win[i] # AIMessage("welcome")
                /\ (pc' # "idle" => \A j \in 1..Len(chan'.messages.win) :
                                        chan'.messages.win[j] # AIMessage("welcome"))]_vars

\* C3 witness: the first turn has ended with the welcome.
C3_Witness ==
    /\ pc = "idle"
    /\ turn.nodes = <<"detect_intent">>
    /\ turn.llm_calls = 0
    /\ LastMessage(messages) = AIMessage("welcome")
    /\ stage = "SHOPPING"
    /\ current_intent = "UNKNOWN"

\* C4: in a turn after the first that starts with stage CHECKOUT and with
\* customer name or city missing, detect_intent sets intent CHECKOUT without
\* an LLM call, whatever the text of the user message, the empty text included.
C4_CheckoutIntentForced ==
    [][(/\ pc = "detect_intent"
        /\ ~FirstTurn
        /\ stage = "CHECKOUT"
        /\ (~Truthy(customer_name) \/ ~Truthy(customer_city))) =>
            /\ turn'.llm_calls = 0
            /\ pc' = "checkout"
            /\ chan'.current_intent = "CHECKOUT"]_vars

\* C5: every handler run that returns has appended exactly one message, an
\* assistant message, to the log, whatever the cart, customer name and city.
C5_HandlerAppendsOneMessage ==
    [][(pc \in Handlers /\ turn'.raised = "no") =>
            /\ turn'.appended = <<turn.appended[1], 1>>
            /\ LastMessage(messages').type = "ai"]_vars

\* C6: the checkout handler run with a non-empty cart, customer name set and
\* customer city unset creates an order from the cart with that name and the
\* trimmed text as city and stores it; the cart is then empty, the stage
\* COMPLETED and one confirmation message is appended.
C6_CheckoutCompletesOrder ==
    [][(/\ pc = "checkout"
        /\ ~is_empty(cart)
        /\ Truthy(customer_name)
        /\ ~Truthy(customer_city)) =>
            /\ turn'.raised = "no"
            /\ order' # None
            /\ order'.cart = cart
            /\ order'.customer_name = customer_name.str
            /\ order'.customer_city = Strip(TurnText)
            /\ customer_city' = Str(Strip(TurnText))
            /\ cart' = <<>>
            /\ stage' = "COMPLETED"
            /\ turn'.appended = <<0, 1>>
            /\ LastMessage(messages') = AIMessage("order_confirmation")]_vars

\* C7: the checkout handler run with an empty cart appends the empty-cart
\* guidance message, sets stage SHOPPING, creates no order and leaves cart,
\* customer name and customer city unchanged, whatever the stage before.
C7_CheckoutWithEmptyCart ==
    [][(pc = "checkout" /\ is_empty(cart)) =>
            /\ turn'.raised = "no"
            /\ turn'.appended = <<0, 1>>
            /\ LastMessage(messages') = AIMessage("checkout_cart_empty")
            /\ stage' = "SHOPPING"
            /\ order' = order
            /\ cart' = cart
            /\ customer_name' = customer_name
            /\ customer_city' = customer_city]_vars

\* C7 witness: after a completed order (stage COMPLETED, name and city set)
\* a checkout on the emptied cart has answered with the guidance message.
C7_Witness ==
    /\ pc = "idle"
    /\ turn.nodes = <<"detect_intent", "checkout">>
    /\ LastMessage(messages) = AIMessage("checkout_cart_empty")
    /\ stage = "SHOPPING"
    /\ is_empty(cart)
    /\ order # None
    /\ Truthy(customer_name) /\ Truthy(customer_city)

----------------------------------------------------------------------------
(* Properties of the cart *)

\* C8: in every reachable state the cart holds at most one line per product
\* id and every line's quantity q satisfies 1 <= q <= product.stock.
C8_CartLinesWithinStock ==
    /\ OneLinePerProduct(cart)
    /\ \A i \in 1..Len(cart) :
        /\ Whole(1) <= cart[i].quantity
        /\ cart[i].quantity <= Whole(cart[i].product.stock)

\* C9: add_item(p, q) with q > 0 fails with a stock error exactly when
\* p.stock < (quantity of p already in the cart) + q, and a failed call leaves
\* the cart unchanged; otherwise it creates the line with quantity q or
\* increases the existing line's quantity by q.
C9_AddItemStockCheck ==
    (call.op = "add_item" /\ call.quantity > 0) =>
        LET product == get_by_id(call.product_id)
            current == QuantityIn(call.before, call.product_id)
            short == Whole(product.stock) < current + call.quantity
        IN  /\ call.raised = (IF short THEN "insufficient_stock" ELSE "no")
            /\ short => cart = call.before
            /\ ~short /\ current = 0 =>
                cart = Append(call.before, [product |-> product, quantity |-> call.quantity])
            /\ ~short /\ current > 0 =>
                /\ Len(cart) = Len(call.before)
                /\ \A i \in 1..Len(cart) :
                    /\ cart[i].product = call.before[i].product
                    /\ cart[i].quantity =
                        call.before[i].quantity
                        + (IF cart[i].product.id = call.product_id THEN call.quantity ELSE 0)

\* C9 witness: an add_item whose quantity alone is in stock fails because of
\* the quantity already in the cart.
C9_Witness ==
    /\ call.op = "add_item"
    /\ call.raised = "insufficient_stock"
    /\ QuantityIn(call.before, call.product_id) > 0
    /\ call.quantity > 0
    /\ call.quantity <= Whole(get_by_id(call.product_id).stock)
    /\ cart = call.before

\* C10: in every cart state reachable via add_item/update_quantity/
\* remove_item/clear, get_total() equals the sum over lines of price x quantity
\* (to 2 decimals) and get_item_count() equals the sum of line quantities;
\* both are 0 exactly when is_empty() holds.
C10_TotalAndCount ==
    LET cents(p) == p.price * QuantityIn(cart, p.id)
        units(p) == QuantityIn(cart, p.id)
    IN  /\ get_total(cart) = RoundDiv(SumOverCatalog(cents, Len(Catalog)), QtyDen)
        /\ get_item_count(cart) = SumOverCatalog(units, Len(Catalog))
        /\ get_total(cart) = 0 <=> is_empty(cart)
        /\ get_item_count(cart) = 0 <=> is_empty(cart)

\* C10 witness: a cart of two lines, one of them set by update_quantity.
C10_Witness ==
    /\ call.op = "update_quantity"
    /\ call.raised = "no"
    /\ Len(cart) = 2
    /\ get_total(cart) > 0
    /\ get_item_count(cart) >= Whole(3)

\* The lines of a cart other than the product's.
Without(c, product_id) ==
    LET other(line) == line.product.id # product_id
    IN  SelectSeq(c, other)

\* C11: after a successful remove_item(id) the cart has no line of id; and
\* update_quantity(id, 0) gives the same cart and the same outcome as
\* remove_item(id): the cart without the line, or the not-in-cart error and
\* the cart unchanged when id has no line.
C11_RemoveAndUpdateToZero ==
    /\ \A product_id \in DirectIds :
        update_quantity(cart, product_id, 0) = remove_item(cart, product_id)
    /\ (call.op = "remove_item" \/ (call.op = "update_quantity" /\ call.quantity = 0)) =>
        IF \E i \in 1..Len(call.before) : call.before[i].product.id = call.product_id
        THEN /\ call.raised = "no"
             /\ cart = Without(call.before, call.product_id)
             /\ ~has_product(cart, call.product_id)
        ELSE /\ call.raised = "not_in_cart"
             /\ cart = call.before

\* C11 witness: update_quantity(id, 0) has removed one of two lines.
C11_Witness ==
    /\ call.op = "update_quantity"
    /\ call.quantity = 0
    /\ call.raised = "no"
    /\ Len(call.before) = 2
    /\ Len(cart) = 1
    /\ ~has_product(cart, call.product_id)

\* C12: update_quantity(id, q) fails when id has no line, when q is negative
\* or when q exceeds the product's stock, and a failed call leaves the cart
\* unchanged; for 1 <= q <= stock it sets the line's quantity to q, whatever
\* it was, and changes no other line.
C12_UpdateQuantity ==
    call.op = "update_quantity" =>
        LET present == \E i \in 1..Len(call.before) :
                          call.before[i].product.id = call.product_id
            stock == get_by_id(call.product_id).stock
        IN  /\ ~present => call.raised # "no"
            /\ call.quantity < 0 => call.raised # "no"
            /\ (present /\ call.quantity > Whole(stock)) => call.raised # "no"
            /\ call.raised # "no" => cart = call.before
            /\ (present /\ Whole(1) <= call.quantity /\ call.quantity <= Whole(stock)) =>
                /\ call.raised = "no"
                /\ Len(cart) = Len(call.before)
                /\ \A i \in 1..Len(cart) :
                    /\ cart[i].product = call.before[i].product
                    /\ cart[i].quantity =
                        IF cart[i].product.id = call.product_id
                        THEN call.quantity ELSE call.before[i].quantity

\* C12 witness: update_quantity has lowered a line of two units to one, the
\* other line kept.
C12_Witness ==
    /\ call.op = "update_quantity"
    /\ call.raised = "no"
    /\ call.quantity = Whole(1)
    /\ QuantityIn(call.before, call.product_id) = Whole(2)
    /\ QuantityIn(cart, call.product_id) = Whole(1)
    /\ Len(cart) = 2

----------------------------------------------------------------------------
(* Properties of the order *)

\* C13: Order.create_from_cart fails on an empty cart, whatever the name and
\* the city, and no order whose cart snapshot is empty is ever stored in the
\* conversation state.
C13_NoOrderOfEmptyCart ==
    /\ \A name \in Texts, city \in Texts :
        /\ create_from_cart(<<>>, name, city).raised # "no"
        /\ create_from_cart(<<>>, name, city).order = None
    /\ order # None => ~is_empty(order.cart)
    /\ (pc # "idle" /\ chan.order # None) => ~is_empty(chan.order.cart)

\* C13 witness: an order is stored and the session's cart has been cleared.
C13_Witness ==
    /\ order # None
    /\ ~is_empty(order.cart)
    /\ is_empty(cart)
    /\ stage = "COMPLETED"

\* C14: an order created from a non-empty cart has the cart's lines and
\* total at creation, and no later step, the clear() of checkout and every
\* later change of the cart included, changes the stored order.
C14_OrderKeepsItsSnapshot ==
    [][/\ (order = None /\ order' # None) =>
            /\ ~is_empty(cart)
            /\ order'.cart = cart
            /\ order'.total = get_total(cart)
            /\ order'.total = SumSubtotals(order'.cart)
            /\ is_empty(cart')
       /\ order # None => order' = order]_vars

\* C14 witness: after the order the cart has been filled again with other
\* lines than the order's.
C14_Witness ==
    /\ order # None
    /\ ~is_empty(cart)
    /\ cart # order.cart
    /\ order.total = get_total(order.cart)
    /\ order.total # get_total(cart)

----------------------------------------------------------------------------
(* Properties of the handlers' error handling *)

\* A handler's run has returned, has appended the one reply of that kind and
\* ends the turn.
RepliesWith(result, kind) ==
    /\ result.raised = "no"
    /\ Appended(chan.messages, result.state.messages) = 1
    /\ LastMessage(result.state.messages) = AIMessage(kind)
    /\ HandlerEdges[should_continue(result.state)] = "END"

\* C15: wherever the manage-cart handler runs, a run whose extraction reply
\* does not decode as JSON appends the parse-error guidance message, leaves
\* the cart and last_product_id unchanged and ends the turn with stage
\* SHOPPING.
C15_ParseErrorGuidance ==
    pc = "manage_cart" =>
        LET result == manage_cart_node(NodeInput, [json |-> "undecodable"])
        IN  /\ RepliesWith(result, "parse_error")
            /\ result.state.cart = cart
            /\ result.state.last_product_id = chan.last_product_id
            /\ result.state.stage = "SHOPPING"
            /\ result.state.order = chan.order

\* C15 witness: a manage-cart turn after a completed order (stage COMPLETED
\* before it) has ended with the parse-error guidance.
C15_Witness ==
    /\ pc = "idle"
    /\ turn.nodes = <<"detect_intent", "manage_cart">>
    /\ LastMessage(messages) = AIMessage("parse_error")
    /\ stage = "SHOPPING"
    /\ order # None
    /\ is_empty(cart)
    /\ last_product_id # None

\* C16: no turn propagates an exception: every turn, for every text (blank
\* and whitespace-only text during the collection of name and city included)
\* and every LLM reply or failure, returns a state.
C16_NoTurnRaises == turn.raised = "no"

\* The ways an LLM call fails, as _handle_llm_error tells them apart.
LLMFailures == {LLMRaises(k) : k \in {"auth", "rate", "other"}}

\* A failed call in cart extraction or in the out-of-context reply is
\* answered with one fixed message and the turn ends.
HandlerAnswersLLMFailure ==
    /\ pc = "manage_cart" =>
        /\ RepliesWith(manage_cart_node(NodeInput, LLMRaises("auth")), "err_api_key")
        /\ RepliesWith(manage_cart_node(NodeInput, LLMRaises("rate")), "err_rate_limit")
        /\ RepliesWith(manage_cart_node(NodeInput, LLMRaises("other")), "err_generic")
    /\ pc = "out_of_context" =>
        \A llm \in LLMFailures :
            RepliesWith(out_of_context_node(NodeInput, llm), "out_of_context_fallback")

\* C17 as claimed: a failed LLM call, in intent classification, in cart
\* extraction or in the out-of-context reply, is not propagated, the turn
\* completes and appends an assistant message that is one of the fixed
\* user-facing strings.
C17_LLMFailureAnswered ==
    /\ HandlerAnswersLLMFailure
    /\ pc = "detect_intent" =>
        \A llm \in LLMFailures :
            LET result == detect_intent_node(NodeInput, llm)
                kinds == {"err_api_key", "err_rate_limit", "err_generic",
                          "out_of_context_fallback"}
            IN  result.llm_calls = 1 =>
                    /\ result.raised = "no"
                    /\ \/ IntentEdges[route_by_intent(result.state)] \in Handlers
                       \/ /\ Appended(chan.messages, result.state.messages) = 1
                          /\ \E k \in kinds : LastMessage(result.state.messages) = AIMessage(k)

\* C17 amended: a failed LLM call is never propagated and the turn completes;
\* in cart extraction and in the out-of-context reply the handler appends one
\* of the fixed messages, in intent classification the intent becomes UNKNOWN
\* and the turn ends without a handler and without an appended message.
C17_LLMFailureAbsorbed ==
    /\ HandlerAnswersLLMFailure
    /\ pc = "detect_intent" =>
        \A llm \in LLMFailures :
            LET result == detect_intent_node(NodeInput, llm)
            IN  result.llm_calls = 1 =>
                    /\ result.raised = "no"
                    /\ result.state = [NodeInput EXCEPT !.current_intent = "UNKNOWN"]
                    /\ Appended(chan.messages, result.state.messages) = 0
                    /\ IntentEdges[route_by_intent(result.state)] = "END"

\* C17 witness: a manage-cart turn whose LLM call hit the rate limit has ended
\* with the rate-limit message.
C17_Witness ==
    /\ pc = "idle"
    /\ turn = [nodes |-> <<"detect_intent", "manage_cart">>, appended |-> <<0, 1>>,
               llm_calls |-> 2, raised |-> "no"]
    /\ LastMessage(messages) = AIMessage("err_rate_limit")
    /\ stage = "SHOPPING"

----------------------------------------------------------------------------
(* Properties of the classifier *)

\* The intent each reply of the model's LLM stands for: a label in any case
\* with blanks around it, or nothing an intent is written as.
IntentOfReply(reply) ==
    IF reply = <<"B","R","O","W","S","E">> THEN "BROWSE"
    ELSE IF reply = <<"m","a","n","a","g","e","_","c","a","r","t">> THEN "MANAGE_CART"
    ELSE IF reply = <<" ","V","i","e","w","_","C","a","r","t","\n">> THEN "VIEW_CART"
    ELSE IF reply = <<"C","H","E","C","K","O","U","T">> THEN "CHECKOUT"
    ELSE IF reply = <<"O","u","t","_","O","f","_","C","o","n","t","e","x","t">>
         THEN "OUT_OF_CONTEXT"
    ELSE IF reply = <<"e","x","i","t">> THEN "EXIT"
    ELSE "UNKNOWN"

\* C18: where detect_intent uses the LLM, the label it returns is parsed
\* case-insensitively after trimming into one of the seven intents; a reply
\* that is no label, and a failure of the call or of the client's creation,
\* give intent UNKNOWN; the node never raises and changes nothing else.
C18_ClassifierParsesLabel ==
    pc = "detect_intent" =>
        /\ \A llm \in IntentLLM \cup LLMFailures :
            LET result == detect_intent_node(NodeInput, llm)
                intent == IF LLMFailed(llm) THEN "UNKNOWN" ELSE IntentOfReply(llm.content)
            IN  /\ result.raised = "no"
                /\ result.llm_calls = 1 =>
                    result.state = [NodeInput EXCEPT !.current_intent = intent]
        /\ {IntentOfReply(r) : r \in IntentReplies} = UserIntent

\* C18 witness: the reply " View_Cart" followed by a newline has been
\* classified VIEW_CART and the view-cart handler is about to run.
C18_Witness ==
    /\ pc = "view_cart"
    /\ turn = [nodes |-> <<"detect_intent">>, appended |-> <<0>>,
               llm_calls |-> 1, raised |-> "no"]
    /\ chan.current_intent = "VIEW_CART"

----------------------------------------------------------------------------
(* Properties of the stock check of the manage-cart handler *)

\* The quantity the line of the product would hold after the extracted add
\* or update: an add puts the quantity on top of the line, an update sets it.
QuantityAsked(c, action_data, product) ==
    IF action_data.action = "add"
    THEN QuantityIn(c, product.id) + action_data.quantity.num
    ELSE action_data.quantity.num

\* The extraction reply decodes to an add or an update of a product that is
\* found, by a positive quantity that would take the line above the stock.
ExceedsStock(state, llm) ==
    /\ ~LLMFailed(llm)
    /\ extract_cart_action(llm) # None
    /\ LET action_data == extract_cart_action(llm)
           found == find_product(action_data, state)
       IN  /\ action_data.action \in {"add", "update"}
           /\ IsNum(action_data.quantity)
           /\ action_data.quantity.num > 0
           /\ found.raised = "no"
           /\ found.product # None
           /\ QuantityAsked(state.cart, action_data, found.product)
                > Whole(found.product.stock)

\* C19: wherever the manage-cart handler runs, an add or update that would
\* take the line's quantity above the product's stock, counting what the
\* cart already holds, leaves the cart unchanged and appends the stock
\* warning as the one reply.
C19_StockWarning ==
    pc = "manage_cart" =>
        \A llm \in ExtractionLLM(WholeNumbers) :
            ExceedsStock(NodeInput, llm) =>
                LET result == manage_cart_node(NodeInput, llm)
                IN  /\ result.state.cart = NodeInput.cart
                    /\ RepliesWith(result, "stock_warning")

----------------------------------------------------------------------------
(* The session's cart summary (app/main.py) *)

\* What the comprehension of get_cart_summary walks over: iterating the
\* dict cart.items yields its keys, the product ids.
SummaryItems(c) == [i \in 1..Len(c) |-> Str(c[i].product.id)]

\* ShoppingChatBot.get_cart_summary. A ShoppingCart is truthy whatever it
\* holds, so the guard "if not cart" lets every cart of the session through;
\* reading product_id from an item of the walk, a string, raises
\* AttributeError, and a walk over no item builds the empty list.
get_cart_summary(c) ==
    IF \E i \in 1..Len(SummaryItems(c)) : IsStr(SummaryItems(c)[i])
    THEN [raised |-> "attribute_error"]
    ELSE [raised |-> "no", items |-> <<>>, total |-> get_total(c),
          item_count |-> get_item_count(c)]

\* C20: between turns, get_cart_summary returns without raising, for empty
\* and non-empty carts alike, one entry per cart line, the cart's total and
\* the sum of the line quantities as item_count.
C20_CartSummary ==
    pc = "idle" =>
        LET summary == get_cart_summary(cart)
            units(p) == QuantityIn(cart, p.id)
        IN  /\ summary.raised = "no"
            /\ Len(summary.items) = Len(cart)
            /\ summary.total = get_total(cart)
            /\ summary.item_count = SumOverCatalog(units, Len(Catalog))

----------------------------------------------------------------------------
(* Several sessions: create_initial_state (graph/state.py) and the
   chatbot's constructor (app/main.py) *)

\* The session ids a caller gives, the empty one included.
SessionIds == {Str(<<"s","1">>), Str(<<>>)}

\* What uuid4 may give.
Uuids == {Str(<<"u","1">>), Str(<<"u","2">>)}

\* ShoppingCart(): a new cart object, its items a dict of its own
\* (default_factory); ref is the object's identity.
ShoppingCart(ref) == [ref |-> ref, items |-> <<>>]

\* create_initial_state handing every session the one cart object.
create_initial_state_shared_cart(session_id, uuid, ref) ==
    [k \in DOMAIN create_initial_state \cup {"cart", "session_id"} |->
        IF k = "cart" THEN ShoppingCart(0)
        ELSE IF k = "session_id" THEN IF session_id = None THEN uuid ELSE session_id
        ELSE create_initial_state[k]]

\* create_initial_state(session_id), whole: the fields above, the new cart
\* and the session id, uuid4's value if none is given.
create_initial_state_with(session_id, uuid, ref) ==
    [k \in DOMAIN create_initial_state \cup {"cart", "session_id"} |->
        IF k = "cart" THEN ShoppingCart(ref)
        ELSE IF k = "session_id" THEN IF session_id = None THEN uuid ELSE session_id
        ELSE create_initial_state[k]]

\* ShoppingChatBot.__init__: the id passed on is "session_id or uuid4()".
ShoppingChatBot(session_id, uuid) == IF Truthy(session_id) THEN session_id ELSE uuid

\* The identity of the next object made.
NewRef == Len(sessions) + 1

Created(op, given, session_id, uuid) ==
    /\ sessions' = Append(sessions, create_initial_state_with(session_id, uuid, NewRef))
    /\ call' = [op |-> op, given |-> given, session_id |-> session_id, uuid |-> uuid]
    /\ UNCHANGED session
    /\ UNCHANGED <<cart, catalog_path, service, singletons, threads>>

\* A direct call of create_initial_state, with or without an id.
CreateInitialState ==
    /\ pc = "idle"
    /\ Len(sessions) < MaxSessions
    /\ \E session_id \in SessionIds \cup {None}, uuid \in Uuids :
        Created("create_initial_state", session_id, session_id, uuid)

\* A chatbot is constructed, with or without an id.
NewChatBot ==
    /\ pc = "idle"
    /\ Len(sessions) < MaxSessions
    /\ \E given \in SessionIds \cup {None}, uuid \in Uuids :
        Created("ShoppingChatBot", given, ShoppingChatBot(given, uuid), uuid)

\* add_item on the cart of one session: the cart object changes, and with it
\* what every state holding that object sees.
SessionAddItem ==
    /\ pc = "idle"
    /\ \E i \in 1..Len(sessions), product \in Products, quantity \in DirectQuantities :
        LET result == add_item(sessions[i].cart.items, product, quantity)
        IN  /\ sessions' = [j \in 1..Len(sessions) |->
                              IF sessions[j].cart.ref = sessions[i].cart.ref
                              THEN [sessions[j] EXCEPT !.cart.items = result.cart]
                              ELSE sessions[j]]
            /\ call' = [op |-> "add_item", session |-> i, product_id |-> product.id,
                        quantity |-> quantity, raised |-> result.raised]
    /\ UNCHANGED session
    /\ UNCHANGED <<cart, catalog_path, service, singletons, threads>>

SessionNext ==
    \/ CreateInitialState
    \/ NewChatBot
    \/ SessionAddItem

SessionSpec == Init /\ [][SessionNext]_vars

\* C21: the state create_initial_state returns has the session id it was
\* given, an empty cart that no earlier state holds, stage WELCOME, intent
\* BROWSE, an empty log and everything else unset; and a change of one
\* session's cart changes the cart of no other session.
C21_NewSessionState ==
    [][/\ Len(sessions') = Len(sessions) + 1 =>
            LET new == sessions'[Len(sessions')]
            IN  /\ call'.session_id # None => new.session_id = call'.session_id
                /\ new.cart.items = <<>>
                /\ \A j \in 1..Len(sessions) :
                    /\ sessions[j].cart.ref # new.cart.ref
                    /\ sessions'[j] = sessions[j]
                /\ new.stage = "WELCOME"
                /\ new.current_intent = "BROWSE"
                /\ new.messages = EmptyLog
                /\ new.customer_name = None
                /\ new.customer_city = None
                /\ new.order = None
                /\ new.last_product_id = None
                /\ new.last_search_results = None
       /\ \A i, j \in 1..Len(sessions) :
            (Len(sessions') = Len(sessions) /\ i # j
                /\ sessions'[i].cart # sessions[i].cart)
            => sessions'[j].cart = sessions[j].cart]_vars

\* C21 witness: a second state has just been made with the id "s1", its
\* cart empty, while the first session's cart holds a line.
C21_Witness ==
    /\ Len(sessions) = 2
    /\ call.op = "create_initial_state"
    /\ call.session_id = Str(<<"s","1">>)
    /\ sessions[2].session_id = Str(<<"s","1">>)
    /\ sessions[1].cart.items # <<>>
    /\ sessions[2].cart.items = <<>>

----------------------------------------------------------------------------
(* Properties of the message log across a turn *)

\* C22: the step that ends a turn without an error leaves as the session's
\* log the log the turn started with (the new user message its last) either
\* as it was or followed by the one assistant message of the turn: nothing
\* is duplicated, reordered or dropped, and the log grows by at most one.
C22_LogGrowsByTheReply ==
    [][(pc # "idle" /\ pc' = "idle" /\ turn'.raised = "no") =>
            \/ messages' = ElideRead(messages)
            \/ /\ LastMessage(messages').type = "ai"
               /\ messages' = ElideRead(LogAppend(messages, LastMessage(messages')))]_vars

----------------------------------------------------------------------------
(* CatalogService: loading (app/services/catalog_service.py) and Product's
   validation (models/product.py) *)

MaxRecords == 2

\* Whether a decoded JSON value is an object.
IsObject(v) == v # None /\ ~IsStr(v) /\ ~IsNum(v) /\ ~("list" \in DOMAIN v)

\* Product(**product_dict): the product, or the validation error.
Product(d) ==
    LET id == Get(d, "id", None)
        name == Get(d, "name", None)
        price == Get(d, "price", None)
        category == Get(d, "category", None)
        description == Get(d, "description", Str(<<>>))
        stock == Get(d, "stock", Num(100))
        valid == /\ IsStr(id) /\ Len(id.str) >= 1
                 /\ IsStr(name) /\ Len(name.str) >= 1 /\ Strip(name.str) # <<>>
                 /\ IsNum(price) /\ price.num > 0
                 /\ IsStr(category) /\ category.str # <<>> /\ Strip(category.str) # <<>>
                 /\ IsStr(description)
                 /\ IsNum(stock) /\ stock.num >= 0
    IN  IF ~valid THEN [raised |-> "validation"]
        ELSE [raised |-> "no",
              product |-> [id |-> id.str, name |-> Strip(name.str), price |-> price.num,
                           category |-> Strip(category.str),
                           description |-> description.str, stock |-> stock.num]]

\* self._products[product.id] = product
PutProduct(products, product) ==
    IF \E i \in 1..Len(products) : products[i].id = product.id
    THEN [i \in 1..Len(products) |->
            IF products[i].id = product.id THEN product ELSE products[i]]
    ELSE Append(products, product)

\* The loop of load_catalog over products_data from record i on.  A record
\* that is no object makes Product(**record) raise, and then the handler's
\* product_dict.get raise in turn, which leaves the loop.
RECURSIVE LoadRecords(_, _, _)
LoadRecords(products, records, i) ==
    IF i > Len(records) THEN [products |-> products, raised |-> "no"]
    ELSE IF ~IsObject(records[i]) THEN [products |-> products, raised |-> "value_error"]
    ELSE LET made == Product(records[i])
         IN  LoadRecords(IF made.raised = "no" THEN PutProduct(products, made.product)
                         ELSE products,
                         records, i + 1)

\* CatalogService.load_catalog: the service after the call, the error
\* raised, and whether the file was opened.
load_catalog(svc, file) ==
    IF file.kind = "absent"
    THEN [service |-> svc, raised |-> "file_not_found", read |-> FALSE]
    ELSE IF file.kind = "undecodable" \/ ~IsObject(file.data)
    THEN [service |-> svc, raised |-> "value_error", read |-> TRUE]
    ELSE LET products_data == Get(file.data, "products", [list |-> <<>>])
         IN  IF ~("list" \in DOMAIN products_data)
             THEN [service |-> svc, raised |-> "value_error", read |-> TRUE]
             ELSE LET done == LoadRecords(svc.products, products_data.list, 1)
                  IN  [service |-> [products |-> done.products,
                                    loaded |-> svc.loaded \/ done.raised = "no"],
                       raised |-> done.raised, read |-> TRUE]

\* CatalogService.ensure_loaded
ensure_loaded(svc, file) ==
    IF ~svc.loaded THEN load_catalog(svc, file)
    ELSE [service |-> svc, raised |-> "no", read |-> FALSE]

\* Records a catalog file may hold: valid ones (a name to strip, a stock
\* left out, a description, the name of another in small letters), the
\* first with another stock, an object that is no valid product, and a value
\* that is no object.
GelRecord ==
    [id |-> Str(<<"p","1">>), name |-> Str(<<" ","G","e","l">>), price |-> Num(1000),
     category |-> Str(<<"a">>), stock |-> Num(1)]

Records ==
    {GelRecord,
     [GelRecord EXCEPT !.stock = Num(3)],
     [id |-> Str(<<"p","2">>), name |-> Str(<<"P","a","n">>), price |-> Num(2550),
      category |-> Str(<<"b">>), description |-> Str(<<"g","e","l"," ","p","a","n">>)],
     [id |-> Str(<<"p","4">>), name |-> Str(<<"g","e","l">>), price |-> Num(500),
      category |-> Str(<<"p","a","n">>), stock |-> Num(0)],
     [id |-> Str(<<"p","3">>), name |-> Str(<<"S","a","l">>), price |-> Num(0),
      category |-> Str(<<"b">>), stock |-> Num(1)],
     Num(5)}

\* Lists of records, no id twice in a list.
RecordLists ==
    {l \in UNION {[1..n -> Records] : n \in 0..MaxRecords} :
        \A i, j \in 1..Len(l) :
            (i # j /\ IsObject(l[i]) /\ IsObject(l[j])) => l[i].id # l[j].id}

\* What may be at the path: nothing, text that is no JSON, JSON that is no
\* object, an object without products or with products that are no list,
\* and an object with a list of records.
Files ==
    {[kind |-> "absent"], [kind |-> "undecodable"],
     [kind |-> "json", data |-> [list |-> <<>>]],
     [kind |-> "json", data |-> [version |-> Num(1)]],
     [kind |-> "json", data |-> [products |-> None]]}
    \cup {[kind |-> "json", data |-> [products |-> [list |-> l]]] : l \in RecordLists}

\* The file at the path is written, replaced or removed.
WriteFile ==
    /\ pc = "idle"
    /\ \E file \in Files : catalog_path' = file
    /\ call' = [op |-> "write"]
    /\ UNCHANGED <<service, sessions, cart, singletons, threads>>
    /\ UNCHANGED session

ServiceCalled(op, result) ==
    /\ service' = result.service
    /\ call' = [op |-> op, raised |-> result.raised, read |-> result.read,
                before |-> service]
    /\ UNCHANGED <<catalog_path, sessions, cart, singletons, threads>>
    /\ UNCHANGED session

LoadCatalog ==
    /\ pc = "idle"
    /\ ServiceCalled("load_catalog", load_catalog(service, catalog_path))

EnsureLoaded ==
    /\ pc = "idle"
    /\ ServiceCalled("ensure_loaded", ensure_loaded(service, catalog_path))

----------------------------------------------------------------------------
(* CatalogService.search_products and difflib's SequenceMatcher.  A score
   is a fraction [n, d] with d > 0. *)

\* The length of the common run of a from i and b from j, within ahi, bhi.
RECURSIVE RunLength(_, _, _, _, _, _)
RunLength(a, b, i, j, ahi, bhi) ==
    IF i > ahi \/ j > bhi THEN 0
    ELSE IF a[i] # b[j] THEN 0
    ELSE 1 + RunLength(a, b, i + 1, j + 1, ahi, bhi)

\* SequenceMatcher.find_longest_match on a[alo..ahi], b[blo..bhi]: the
\* longest matching block, of those the one starting earliest in a, and of
\* those the one starting earliest in b (no junk: isjunk is None and the
\* texts are shorter than 200).
find_longest_match(a, b, alo, ahi, blo, bhi) ==
    LET blocks == {[i |-> i, j |-> j, k |-> RunLength(a, b, i, j, ahi, bhi)] :
                        i \in alo..ahi, j \in blo..bhi}
        better(x, y) == \/ x.k > y.k
                        \/ x.k = y.k /\ x.i < y.i
                        \/ x.k = y.k /\ x.i = y.i /\ x.j <= y.j
    IN  IF blocks = {} THEN [i |-> alo, j |-> blo, k |-> 0]
        ELSE CHOOSE x \in blocks : \A y \in blocks : better(x, y)

\* The number of matched characters of get_matching_blocks: the longest
\* block, and the same to its left and to its right.
RECURSIVE Matches(_, _, _, _, _, _)
Matches(a, b, alo, ahi, blo, bhi) ==
    LET m == find_longest_match(a, b, alo, ahi, blo, bhi)
    IN  IF m.k = 0 THEN 0
        ELSE m.k + Matches(a, b, alo, m.i - 1, blo, m.j - 1)
                 + Matches(a, b, m.i + m.k, ahi, m.j + m.k, bhi)

\* SequenceMatcher(None, a, b).ratio(): 2.0 * matches / (len(a) + len(b)),
\* and 1.0 for two empty texts.
ratio(a, b) ==
    IF Len(a) + Len(b) = 0 THEN [n |-> 1, d |-> 1]
    ELSE [n |-> 2 * Matches(a, b, 1, Len(a), 1, Len(b)), d |-> Len(a) + Len(b)]

\* x >= y on scores.
AtLeast(x, y) == x.n * y.d >= y.n * x.d

\* max(x, y)
Max(x, y) == IF AtLeast(y, x) /\ ~AtLeast(x, y) THEN y ELSE x

\* x * (n / d)
Times(x, n, d) == [n |-> x.n * n, d |-> x.d * d]

\* The best_ratio search_products computes for a product.
best_ratio(query_lower, product) ==
    LET name_ratio == ratio(query_lower, Lower(product.name))
        desc_ratio == ratio(query_lower, Lower(product.description))
        cat_ratio == ratio(query_lower, Lower(product.category))
        weighted == Max(Max(name_ratio, Times(desc_ratio, 8, 10)), Times(cat_ratio, 9, 10))
    IN  IF \/ Contains(Lower(product.name), query_lower)
           \/ Contains(Lower(product.description), query_lower)
           \/ Contains(Lower(product.category), query_lower)
        THEN Max(weighted, [n |-> 7, d |-> 10])
        ELSE weighted

\* matches.sort(key=ratio, reverse=True): by falling ratio, equal ratios in
\* the order they had.
SortByRatio(matches) ==
    LET n == Len(matches)
        rank(i) == 1 + Cardinality({j \in 1..n :
                        \/ ~AtLeast(matches[i].ratio, matches[j].ratio)
                        \/ /\ AtLeast(matches[i].ratio, matches[j].ratio)
                           /\ AtLeast(matches[j].ratio, matches[i].ratio)
                           /\ j < i})
    IN  [r \in 1..n |-> matches[CHOOSE i \in 1..n : rank(i) = r]]

\* search_products without the sort: the kept products in load order.
search_products_unsorted(products, query, min_similarity) ==
    LET query_lower == Strip(Lower(query))
        kept(product) == AtLeast(best_ratio(query_lower, product), min_similarity)
    IN  IF query_lower = <<>> THEN <<>> ELSE SelectSeq(products, kept)

\* CatalogService.search_products once the catalog is loaded.
search_products(products, query, min_similarity) ==
    LET query_lower == Strip(Lower(query))
        scored == [i \in 1..Len(products) |->
                     [product |-> products[i], ratio |-> best_ratio(query_lower, products[i])]]
        kept(m) == AtLeast(m.ratio, min_similarity)
        sorted == SortByRatio(SelectSeq(scored, kept))
    IN  IF query_lower = <<>> THEN <<>>
        ELSE [i \in 1..Len(sorted) |-> sorted[i].product]

\* The texts searched for, and the thresholds: the default and a higher one.
Queries == {<<"G","e","l">>, <<"P","a","n">>, <<"g","e","l">>, <<"a","n">>, <<"x">>, <<" ">>}

DefaultSimilarity == [n |-> 2, d |-> 5]

MinSimilarities == {DefaultSimilarity, [n |-> 3, d |-> 4]}

\* search_products is called: the catalog is loaded first if it is not.
SearchProducts ==
    /\ pc = "idle"
    /\ \E query \in Queries, min_similarity \in MinSimilarities :
        LET ensured == ensure_loaded(service, catalog_path)
        IN  /\ service' = ensured.service
            /\ call' = [op |-> "search_products", query |-> query,
                        min_similarity |-> min_similarity, raised |-> ensured.raised,
                        result |-> IF ensured.raised # "no" THEN <<>>
                                   ELSE search_products(ensured.service.products, query,
                                                        min_similarity)]
    /\ UNCHANGED <<catalog_path, sessions, cart, singletons, threads>>
    /\ UNCHANGED session

----------------------------------------------------------------------------
(* The catalog service's calls and their properties *)

CatalogNext ==
    \/ WriteFile
    \/ LoadCatalog
    \/ EnsureLoaded
    \/ SearchProducts

CatalogSpec == Init /\ [][CatalogNext]_vars

\* C23: load_catalog called on a service that has loaded is a no-op: it
\* does not open the file again and leaves the products as they are,
\* whatever the file now holds.
C23_LoadCatalogIdempotent ==
    [][(call'.op = "load_catalog" /\ service.loaded) =>
            /\ call'.raised = "no"
            /\ ~call'.read
            /\ service' = service]_vars

\* The records of the file at the path, if it holds an object with a list
\* of products (no products at all being the empty list).
RecordsOf(file) ==
    IF file.kind = "json" /\ IsObject(file.data)
    THEN Get(file.data, "products", [list |-> <<>>])
    ELSE None

\* C24: a load of a file that holds a list of records, invalid ones among
\* them or not, succeeds, marks the catalog loaded, and leaves in it the
\* product of every valid record and nothing that comes from an invalid
\* one; the load fails with the not-found error only when there is no file,
\* and with the malformed-data error only when the file as a whole cannot be
\* read as a product collection, and a catalog not loaded then stays so.
C24_PartialLoad ==
    [][call'.op = "load_catalog" =>
        LET records == RecordsOf(catalog_path)
            held(products) == {products[i] : i \in 1..Len(products)}
            valid == {Product(records.list[i]).product :
                        i \in {j \in 1..Len(records.list) :
                                 /\ IsObject(records.list[j])
                                 /\ Product(records.list[j]).raised = "no"}}
        IN  /\ (records # None /\ "list" \in DOMAIN records) =>
                /\ call'.raised = "no"
                /\ service'.loaded
                /\ valid \subseteq held(service'.products)
                /\ held(service'.products) \subseteq held(service.products) \cup valid
            /\ call'.raised = "file_not_found" <=> catalog_path.kind = "absent"
            /\ call'.raised = "value_error" =>
                /\ catalog_path.kind # "absent"
                /\ records = None \/ ~("list" \in DOMAIN records)
                /\ service'.loaded = service.loaded]_vars

\* The place of a product in the load order.
LoadIndex(product) == CHOOSE i \in 1..Len(service.products) : service.products[i] = product

\* The results hold exactly the products whose score is at least the
\* threshold, each once, by falling score and, at equal scores, in load order.
KeptInOrder(query, min_similarity, result) ==
    LET score(p) == best_ratio(Strip(Lower(query)), p)
    IN  /\ {result[i] : i \in 1..Len(result)}
            = {service.products[i] : i \in {j \in 1..Len(service.products) :
                    AtLeast(score(service.products[j]), min_similarity)}}
        /\ \A i, j \in 1..Len(result) : i < j =>
            /\ result[i] # result[j]
            /\ AtLeast(score(result[i]), score(result[j]))
            /\ AtLeast(score(result[j]), score(result[i]))
                => LoadIndex(result[i]) < LoadIndex(result[j])

\* C25 as claimed: after a search that returned, if the query is the name of
\* a product of the catalog (and the threshold the default), that product
\* is the first result; and the results are exactly the products scoring at
\* least the threshold, by falling score, ties in load order.
C25_SearchByNameFirst ==
    (call.op = "search_products" /\ call.raised = "no") =>
        /\ \A i \in 1..Len(service.products) :
            (call.query = service.products[i].name
                /\ call.min_similarity = DefaultSimilarity)
            => /\ call.result # <<>>
               /\ call.result[1] = service.products[i]
        /\ KeptInOrder(call.query, call.min_similarity, call.result)

\* C25 amended: the product named by the query is the first result unless a
\* product loaded before it has the same name but for the case of letters;
\* a blank query has no results, and any other has exactly the products
\* scoring at least the threshold, by falling score, ties in load order.
C25_SearchOrder ==
    (call.op = "search_products" /\ call.raised = "no") =>
        /\ \A i \in 1..Len(service.products) :
            (/\ call.query = service.products[i].name
             /\ call.min_similarity = DefaultSimilarity
             /\ \A j \in 1..(i - 1) :
                    Lower(service.products[j].name) # Lower(service.products[i].name))
            => /\ call.result # <<>>
               /\ call.result[1] = service.products[i]
        /\ IF Strip(Lower(call.query)) = <<>> THEN call.result = <<>>
           ELSE KeptInOrder(call.query, call.min_similarity, call.result)

\* C25 witness: a search for "Pan" in a catalog that loaded the product of
\* category "pan" before the product named "Pan" has returned the named one
\* first and the other second.
C25_Witness ==
    /\ call.op = "search_products"
    /\ call.raised = "no"
    /\ call.query = <<"P","a","n">>
    /\ Len(service.products) = 2
    /\ service.products[1].id = <<"p","4">>
    /\ call.result = <<service.products[2], service.products[1]>>
    /\ call.result[1].name = <<"P","a","n">>

----------------------------------------------------------------------------
(* Properties of the catalog's products across turns *)

\* The products the session refers to: those of the cart's lines and those
\* of the lines of the order's snapshot, of the session and of a running turn.
HeldProducts ==
    LET of(c) == {c[i].product : i \in 1..Len(c)}
    IN  of(cart)
        \cup (IF order # None THEN of(order.cart) ELSE {})
        \cup (IF chan # None /\ chan.order # None THEN of(chan.order.cart) ELSE {})

\* C26: at every point of every turn, a completed checkout included, every
\* product the session refers to is the catalog's product of that id, field
\* by field, and the stock a listing showed is the catalog's stock.
C26_ProductsNeverChange ==
    /\ \A p \in HeldProducts : get_by_id(p.id) = p
    /\ last_search_results # None =>
        \A i \in 1..Len(last_search_results.list) :
            LET shown == last_search_results.list[i]
            IN  /\ get_by_id(shown.id) # None
                /\ get_by_id(shown.id).stock = shown.stock
                /\ get_by_id(shown.id).price = shown.price

\* C26 witness: a checkout has completed with an order of two units of a
\* product whose stock is two, and the catalog still has the two.
C26_Witness ==
    /\ pc = "idle"
    /\ stage = "COMPLETED"
    /\ order # None
    /\ \E i \in 1..Len(order.cart) :
        /\ order.cart[i].quantity = Whole(2)
        /\ order.cart[i].product.stock = 2
        /\ get_by_id(order.cart[i].product.id).stock = 2

----------------------------------------------------------------------------
(* The lazily made singletons of graph/nodes.py, called from several
   threads.  A thread runs one getter a statement at a time; threads
   interleave between statements. *)

\* What no thread's step touches.
ThreadFrame == UNCHANGED <<session, cart, call, sessions, catalog_path, service>>

\* The global a getter keeps its singleton in.
GlobalOf(getter) == IF getter = "get_catalog_service" THEN "catalog_service" ELSE "llm"

\* A thread calls get_catalog_service or get_llm.
Enter(t) ==
    /\ threads[t].pc = "out"
    /\ \E getter \in {"get_catalog_service", "get_llm"} :
        threads' = [threads EXCEPT ![t] = [pc |-> "test", getter |-> getter, got |-> None]]
    /\ UNCHANGED singletons
    /\ ThreadFrame

\* "if _catalog_service is None:", "if _llm is None:"
TestIsNone(t) ==
    /\ threads[t].pc = "test"
    /\ threads' = [threads EXCEPT ![t].pc =
                     IF singletons[GlobalOf(threads[t].getter)] = None THEN "make"
                     ELSE "return"]
    /\ UNCHANGED singletons
    /\ ThreadFrame

\* "_catalog_service = CatalogService()", a service not yet loaded, and
\* "_llm = create_llm()", a client ready for use.
Make(t) ==
    /\ threads[t].pc = "make"
    /\ LET getter == threads[t].getter
           object == [of |-> getter, ready |-> getter = "get_llm"]
       IN  /\ singletons' = [singletons EXCEPT
                                !.made = Append(@, object),
                                ![GlobalOf(getter)] = Num(Len(singletons.made) + 1)]
           /\ threads' = [threads EXCEPT ![t].pc =
                            IF getter = "get_catalog_service" THEN "load" ELSE "return"]
    /\ ThreadFrame

\* "_catalog_service.load_catalog()": the object the global now names has
\* loaded.
Load(t) ==
    /\ threads[t].pc = "load"
    /\ singletons' = [singletons EXCEPT !.made[singletons.catalog_service.num].ready = TRUE]
    /\ threads' = [threads EXCEPT ![t].pc = "return"]
    /\ ThreadFrame

\* "return _catalog_service", "return _llm": the caller has the object the
\* global names, in the condition it is in.
Return(t) ==
    /\ threads[t].pc = "return"
    /\ LET ref == singletons[GlobalOf(threads[t].getter)].num
       IN  threads' = [threads EXCEPT ![t].pc = "out",
                                      ![t].got = [ref |-> ref,
                                                  ready |-> singletons.made[ref].ready]]
    /\ UNCHANGED singletons
    /\ ThreadFrame

ThreadNext ==
    \/ \E t \in 1..MaxThreads : Enter(t)
    \/ \E t \in 1..MaxThreads : TestIsNone(t)
    \/ \E t \in 1..MaxThreads : Make(t)
    \/ \E t \in 1..MaxThreads : Load(t)
    \/ \E t \in 1..MaxThreads : Return(t)

ThreadSpec == Init /\ [][ThreadNext]_vars

\* C27: whatever the interleaving of the threads that call a getter, each
\* singleton is made at most once, and no caller of get_catalog_service has
\* received a service whose load had not completed.
C27_SingletonMadeOnce ==
    /\ \A getter \in {"get_catalog_service", "get_llm"} :
        Cardinality({i \in 1..Len(singletons.made) : singletons.made[i].of = getter}) <= 1
    /\ \A t \in 1..MaxThreads :
        (threads[t].got # None /\ threads[t].getter = "get_catalog_service")
            => threads[t].got.ready

----------------------------------------------------------------------------
(* Properties of the session across turns: the stage and the log *)

\* The changes of stage the stage machine allows.
StageChanges ==
    {<<"WELCOME", "SHOPPING">>, <<"SHOPPING", "CHECKOUT">>,
     <<"CHECKOUT", "SHOPPING">>, <<"CHECKOUT", "COMPLETED">>}

\* C28: over any sequence of turns the session's stage stays as it is or
\* changes along WELCOME -> SHOPPING, SHOPPING -> CHECKOUT, CHECKOUT ->
\* SHOPPING or CHECKOUT -> COMPLETED; it never leaves COMPLETED and never
\* becomes ERROR.
C28_StageChanges ==
    [][/\ stage' = stage \/ <<stage, stage'>> \in StageChanges
       /\ stage' # "ERROR"]_vars

\* C29: after every turn that completed, whatever its intent, the log
\* alternates user and assistant messages and ends with an assistant message.
C29_LogAlternates ==
    [][(pc # "idle" /\ pc' = "idle" /\ turn'.raised = "no") =>
            /\ LastMessage(messages').type = "ai"
            /\ \A i \in 1..(Len(messages'.win) - 1) :
                messages'.win[i].type # messages'.win[i + 1].type]_vars

----------------------------------------------------------------------------
(* Properties of the reference resolver *)

\* C30: wherever the manage-cart handler runs, a reference of type index
\* with a numeric value within the listing snapshotted in
\* last_search_results resolves to the product at that 1-based position;
\* with a value out of range or not numeric, or with no listing snapshotted
\* yet, the handler leaves the cart unchanged and replies with the
\* product-not-found message.
C30_IndexReference ==
    pc = "manage_cart" =>
        \A llm \in ExtractionLLM(WholeNumbers) :
            (/\ ~LLMFailed(llm)
             /\ extract_cart_action(llm) # None
             /\ IsObject(extract_cart_action(llm).product_ref)
             /\ Get(extract_cart_action(llm).product_ref, "type", "name") = "index")
            => LET action_data == extract_cart_action(llm)
                   n == ToInt(Get(action_data.product_ref, "value", Str(<<>>)))
                   results == NodeInput.last_search_results
                   found == find_product(action_data, NodeInput)
                   result == manage_cart_node(NodeInput, llm)
               IN  IF /\ n.raised = "no"
                      /\ results # None
                      /\ 1 <= n.int
                      /\ n.int <= Len(results.list)
                   THEN /\ found.raised = "no"
                        /\ found.product = get_by_id(results.list[n.int].id)
                   ELSE /\ result.state.cart = NodeInput.cart
                        /\ RepliesWith(result, "product_not_found")

----------------------------------------------------------------------------
(* Properties of last_product_id and of the reference "last" *)

\* The replies of a manage-cart run that applied its action.
AppliedReplies == {"added", "updated", "removed", "reduced"}

\* The extraction result that refers to the last product.
LastReference == [action |-> "add", quantity |-> Num(Whole(1)), product_ref |-> [type |-> "last"]]

\* C31: a manage-cart run that applies its action leaves in last_product_id
\* the id of a catalog product, the only one whose line the run may have
\* changed; last_product_id changes in no step but a manage-cart run; and in
\* every turn that reaches the manage-cart handler a reference of type last
\* resolves to the catalog's product of that id, and to absent while
\* last_product_id is unset.
C31_LastProduct ==
    [][/\ (pc = "manage_cart" /\ LastMessage(messages').content.kind \in AppliedReplies)
            => /\ last_product_id' # None
               /\ last_product_id'.str \in ProductIds
               /\ \A id \in ProductIds \ {last_product_id'.str} :
                    QuantityIn(cart', id) = QuantityIn(cart, id)
       /\ last_product_id' # last_product_id => pc = "manage_cart"
       /\ pc' = "manage_cart" =>
            /\ chan'.last_product_id = last_product_id
            /\ find_product(LastReference, NodeInput')
                = Found(IF last_product_id = None THEN None
                        ELSE get_by_id(last_product_id.str))]_vars

\* C31 witness: after an add of two units of p2, a later manage-cart turn
\* has set the line to one unit; last_product_id names p2.
C31_Witness ==
    /\ pc = "idle"
    /\ turn.nodes = <<"detect_intent", "manage_cart">>
    /\ LastMessage(messages) = AIMessage("updated")
    /\ last_product_id = Str(<<"p","2">>)
    /\ Len(cart) = 1
    /\ cart[1].product.id = <<"p","2">>
    /\ cart[1].quantity = Whole(1)

----------------------------------------------------------------------------
(* Properties of last_search_results and of the reference by index *)

\* The extraction result that refers to the i-th product listed.
IndexReference(i) ==
    [action |-> "add", quantity |-> Num(Whole(1)),
     product_ref |-> [type |-> "index", value |-> Num(Whole(i))]]

\* C32: a browse run leaves in last_search_results one entry per catalog
\* product, in load order; no other step changes last_search_results; and
\* in every later turn that reaches the manage-cart handler a reference of
\* type index with value i resolves to the i-th catalog product, the i-th
\* shown.
C32_ListingSnapshot ==
    [][/\ pc = "browse" =>
            /\ last_search_results' # None
            /\ Len(last_search_results'.list) = Len(Catalog)
            /\ \A i \in 1..Len(Catalog) :
                /\ last_search_results'.list[i].id = Catalog[i].id
                /\ last_search_results'.list[i].name = Catalog[i].name
       /\ last_search_results' # last_search_results => pc = "browse"
       /\ (pc' = "manage_cart" /\ last_search_results # None) =>
            /\ chan'.last_search_results = last_search_results
            /\ \A i \in 1..Len(Catalog) :
                find_product(IndexReference(i), NodeInput') = Found(Catalog[i])]_vars

\* C32 witness: a listing has been snapshotted, and a manage-cart turn has
\* added the first product listed to the empty cart.
C32_Witness ==
    /\ pc = "idle"
    /\ last_search_results # None
    /\ turn.nodes = <<"detect_intent", "manage_cart">>
    /\ LastMessage(messages) = AIMessage("added")
    /\ last_product_id = Str(last_search_results.list[1].id)
    /\ Len(cart) = 1
    /\ cart[1].product = Catalog[1]

----------------------------------------------------------------------------
(* Properties of the collection of the customer's name *)

\* Utterances that hold no trigger word, each with the name it gives: the
\* text without the blanks around it and without one leading phrase, or None
\* if nothing remains.
NameOfUtterance ==
    {<<<<" ","s","o","y"," ","A","n","a"," ">>, Str(<<"A","n","a">>)>>,
     <<<<"M","e"," ","l","l","a","m","o"," ","A","n","a">>, Str(<<"A","n","a">>)>>,
     <<<<"A","n","a">>, Str(<<"A","n","a">>)>>,
     <<<<"m","e"," ","l","l","a","m","o"," ","s","o","y">>, Str(<<"s","o","y">>)>>,
     <<<<"s","o","y"," ">>, None>>,
     <<<<" ">>, None>>}

\* Utterances that hold a trigger word.
TriggerUtterances ==
    {<<"P","a","g","a","r">>,
     <<"s","o","y"," ","A","n","a",","," ","c","o","m","p","r","a","r">>,
     <<"F","i","n","a","l","i","z","a","r">>,
     <<"c","h","e","c","k","o","u","t">>}

\* C34: where the checkout handler runs with a non-empty cart and no
\* customer name, an utterance with a trigger word gets the question for the
\* name and leaves the name unset; any other is stored as the name, without
\* one leading phrase, or gets the re-prompt with the name still unset if
\* nothing remains; the stage becomes CHECKOUT in all three cases, the cart
\* is left alone, and no name stored is empty or blank.
C34_NameCollection ==
    [][/\ (pc = "checkout" /\ ~is_empty(cart) /\ ~Truthy(chan.customer_name)) =>
            /\ \A text \in TriggerUtterances :
                collect_customer_name(NodeInput, text)
                    = [Reply(NodeInput, "ask_name") EXCEPT !.stage = "CHECKOUT"]
            /\ \A u \in NameOfUtterance :
                collect_customer_name(NodeInput, u[1])
                    = IF u[2] = None
                      THEN [Reply(NodeInput, "name_not_understood") EXCEPT !.stage = "CHECKOUT"]
                      ELSE [Reply(NodeInput, "ask_city") EXCEPT
                                !.customer_name = u[2], !.stage = "CHECKOUT"]
            /\ turn'.raised = "no"
            /\ stage' = "CHECKOUT"
            /\ cart' = cart
            /\ LastMessage(messages').content.kind
                \in {"ask_name", "ask_city", "name_not_understood"}
            /\ LastMessage(messages').content.kind = "ask_city" <=> customer_name' # None
            /\ TurnText \in TriggerUtterances
                => /\ LastMessage(messages') = AIMessage("ask_name")
                   /\ customer_name' = customer_name
            /\ \A u \in NameOfUtterance : TurnText = u[1] => customer_name' = u[2]
       /\ customer_name' # None => Strip(customer_name'.str) # <<>>]_vars

\* C34 witness: the utterance " soy Ana " has been stored as the name "Ana",
\* the handler has asked for the city and the stage is CHECKOUT.
C34_Witness ==
    /\ pc = "idle"
    /\ turn.nodes = <<"detect_intent", "checkout">>
    /\ stage = "CHECKOUT"
    /\ customer_name = Str(<<"A","n","a">>)
    /\ customer_city = None
    /\ LastMessage(messages) = AIMessage("ask_city")
    /\ ~is_empty(cart)

----------------------------------------------------------------------------
(* Properties of the extracted action *)

\* C33: wherever the manage-cart handler runs, every reply that decodes as
\* a JSON object gives a structured action whose action is add, remove or
\* update and whose quantity is a positive integer, add and 1 standing in for
\* missing fields.
C33_ExtractedActionContract ==
    pc = "manage_cart" =>
        \A llm \in ExtractionLLM(WholeNumbers) :
            (~LLMFailed(llm) /\ llm.json = "object") =>
                LET action_data == extract_cart_action(llm)
                IN  /\ action_data # None
                    /\ action_data.action \in {"add", "remove", "update"}
                    /\ IsNum(action_data.quantity)
                    /\ IsWhole(action_data.quantity.num)
                    /\ action_data.quantity.num > 0
                    /\ ~("action" \in DOMAIN llm.data) => action_data.action = "add"
                    /\ ~("quantity" \in DOMAIN llm.data)
                        => action_data.quantity = Num(Whole(1))

----------------------------------------------------------------------------
(* Properties of remove *)

\* C35: wherever the manage-cart handler runs, a remove with quantity q of a
\* resolved product whose line holds c deletes the line when q >= c and
\* leaves c - q otherwise; of a product not in the cart it leaves the cart
\* unchanged and replies that the product is not in the cart; and for every
\* integer q no line holds more after the remove than before it.
C35_RemoveNeverRaises ==
    pc = "manage_cart" =>
        \A llm \in ExtractionLLM(WholeNumbers) :
            (/\ ~LLMFailed(llm)
             /\ extract_cart_action(llm) # None
             /\ extract_cart_action(llm).action = "remove"
             /\ IsNum(extract_cart_action(llm).quantity)
             /\ find_product(extract_cart_action(llm), NodeInput).raised = "no"
             /\ find_product(extract_cart_action(llm), NodeInput).product # None)
            => LET action_data == extract_cart_action(llm)
                   product == find_product(action_data, NodeInput).product
                   q == action_data.quantity.num
                   c == QuantityIn(cart, product.id)
                   result == manage_cart_node(NodeInput, llm)
               IN  /\ IF ~has_product(cart, product.id)
                      THEN /\ result.state.cart = cart
                           /\ RepliesWith(result, "not_in_cart")
                      ELSE IF q >= c
                           THEN ~has_product(result.state.cart, product.id)
                           ELSE QuantityIn(result.state.cart, product.id) = c - q
                   /\ \A id \in ProductIds :
                        QuantityIn(result.state.cart, id) <= QuantityIn(cart, id)

----------------------------------------------------------------------------
(* Properties of a session that has ordered *)

\* C36: once the session stores an order, no step changes the order, the
\* customer name or the customer city, and a checkout run with a non-empty
\* cart works on that same order, creates none and leaves the cart as it is.
C36_OneOrder ==
    [][/\ order # None
            => /\ order' = order
               /\ customer_name' = customer_name
               /\ customer_city' = customer_city
       /\ (order # None /\ pc = "checkout" /\ ~is_empty(cart))
            => /\ chan.order = order
               /\ cart' = cart
               /\ turn'.raised = "no"]_vars

C36_Witness ==
    /\ pc = "idle"
    /\ order # None
    /\ turn.nodes = <<"detect_intent", "checkout">>
    /\ ~is_empty(cart)

----------------------------------------------------------------------------
(* Invariants of the stage *)

\* C37: in every state, stage COMPLETED implies an empty cart and a stored
\* order; stage CHECKOUT implies a non-empty cart, no stored order and no
\* customer city; and the customer city is set exactly when an order is
\* stored.
C37_StageInvariants ==
    /\ stage = "COMPLETED" => (is_empty(cart) /\ order # None)
    /\ stage = "CHECKOUT" => (~is_empty(cart) /\ order = None /\ customer_city = None)
    /\ customer_city # None <=> order # None

C37_Witness ==
    /\ pc = "idle"
    /\ stage = "COMPLETED"
    /\ turn.nodes = <<"detect_intent", "checkout">>
    /\ order # None
    /\ customer_city # None
    /\ is_empty(cart)

----------------------------------------------------------------------------
(* Properties of a started checkout *)

\* C38: while the session's stage is CHECKOUT, no step of a turn makes an LLM
\* call, only the checkout handler runs after the entry node, and the stage
\* stays CHECKOUT, the cart then being left unchanged, or becomes COMPLETED:
\* it never returns to SHOPPING.
C38_CheckoutIsKept ==
    [][stage = "CHECKOUT"
            => /\ stage' \in {"CHECKOUT", "COMPLETED"}
               /\ stage' = "CHECKOUT" => cart' = cart
               /\ turn'.llm_calls = 0
               /\ pc' \in {"idle", "detect_intent", "checkout"}
               /\ pc # "idle" => chan.stage = "CHECKOUT"]_vars

C38_Witness ==
    /\ pc = "idle"
    /\ stage = "CHECKOUT"
    /\ customer_name # None
    /\ turn.nodes = <<"detect_intent", "checkout">>
    /\ turn.llm_calls = 0
    /\ LastMessage(messages) = AIMessage("ask_city")

----------------------------------------------------------------------------
(* Properties of a rejected cart action *)

\* The extraction failed or the reference resolved to no product.
Unresolved(llm) ==
    \/ LLMFailed(llm)
    \/ extract_cart_action(llm) = None
    \/ find_product(extract_cart_action(llm), NodeInput).raised # "no"
    \/ find_product(extract_cart_action(llm), NodeInput).product = None

\* C39: wherever the manage-cart handler runs, a run that resolves a product
\* p and does not apply its action leaves the cart unchanged and sets
\* last_product_id to p.id, as every run that resolves p does; an add of a
\* non-positive quantity or of more than the stock allows and a remove of a
\* product not in the cart are not applied; and a run whose extraction or
\* resolution fails leaves last_product_id as it was.
C39_RejectedKeepsCart ==
    pc = "manage_cart" =>
        \A llm \in ExtractionLLM(WholeNumbers) :
            LET result == manage_cart_node(NodeInput, llm)
            IN  IF Unresolved(llm)
                THEN /\ result.state.last_product_id = NodeInput.last_product_id
                     /\ result.state.cart = cart
                ELSE LET action_data == extract_cart_action(llm)
                         product == find_product(action_data, NodeInput).product
                         numeric == IsNum(action_data.quantity)
                         q == IF numeric THEN action_data.quantity.num ELSE 0
                         rejected == ~\E kind \in AppliedReplies : RepliesWith(result, kind)
                     IN  /\ result.state.last_product_id = Str(product.id)
                         /\ rejected => result.state.cart = cart
                         /\ ~numeric => rejected
                         /\ (/\ action_data.action \notin {"remove", "update"}
                             /\ numeric
                             /\ \/ q <= 0
                                \/ q + QuantityIn(cart, product.id) > Whole(product.stock))
                                => rejected
                         /\ (action_data.action = "update" /\ numeric /\ q > Whole(product.stock))
                                => rejected
                         /\ (action_data.action = "update" /\ numeric /\ q < 0) => rejected
                         /\ (action_data.action = "remove" /\ ~has_product(cart, product.id))
                                => /\ rejected
                                   /\ RepliesWith(result, "not_in_cart")

C39_Witness ==
    /\ pc = "idle"
    /\ turn.nodes = <<"detect_intent", "manage_cart">>
    /\ LastMessage(messages) = AIMessage("stock_warning")
    /\ last_product_id = Str(<<"p","2">>)
    /\ ~has_product(cart, <<"p","2">>)
    /\ ~is_empty(cart)

----------------------------------------------------------------------------
(* Properties of update *)

\* The extraction reply asking to update product p2 to two units.
UpdateToTwo ==
    [json |-> "object",
     data |-> [action |-> "update", quantity |-> Num(Whole(2)),
               product_reference |-> [type |-> "name", value |-> Str(<<"p","2">>)]]]

\* C40: wherever the manage-cart handler runs, an update with a whole
\* quantity q >= 1 of a resolved product that is not in the cart adds the
\* product with quantity q and replies that it was added when q is at most
\* the stock, and otherwise leaves the cart unchanged with the stock
\* warning; it never replies that the product is not in the cart.
C40_UpdateAdds ==
    pc = "manage_cart" =>
        \A llm \in ExtractionLLM(WholeNumbers) :
            (/\ ~Unresolved(llm)
             /\ extract_cart_action(llm).action = "update"
             /\ IsNum(extract_cart_action(llm).quantity)
             /\ extract_cart_action(llm).quantity.num >= Whole(1)
             /\ ~has_product(cart, find_product(extract_cart_action(llm), NodeInput).product.id))
            => LET action_data == extract_cart_action(llm)
                   product == find_product(action_data, NodeInput).product
                   q == action_data.quantity.num
                   result == manage_cart_node(NodeInput, llm)
               IN  /\ ~RepliesWith(result, "not_in_cart")
                   /\ IF q <= Whole(product.stock)
                      THEN /\ RepliesWith(result, "added")
                           /\ QuantityIn(result.state.cart, product.id) = q
                           /\ Len(result.state.cart) = Len(cart) + 1
                           /\ \A id \in ProductIds \ {product.id} :
                                QuantityIn(result.state.cart, id) = QuantityIn(cart, id)
                      ELSE /\ RepliesWith(result, "stock_warning")
                           /\ result.state.cart = cart

C40_Witness ==
    /\ pc = "manage_cart"
    /\ UpdateToTwo \in ExtractionLLM(WholeNumbers)
    /\ ~is_empty(cart)
    /\ ~has_product(cart, <<"p","2">>)
    /\ RepliesWith(manage_cart_node(NodeInput, UpdateToTwo), "added")
    /\ QuantityIn(manage_cart_node(NodeInput, UpdateToTwo).state.cart, <<"p","2">>) = Whole(2)

====
